---- MODULE Spec2Model ----
(***************************************************************************)
(* Client runtime of the records dashboard: the ApiService request gateway *)
(* (token, localStorage, request/verbs/domain calls), the hash Router      *)
(* (handleRoute, navigate, updateNavigation) driven by the app's routes,   *)
(* and the components built on BaseComponent (state, render, lifecycle).   *)
(*                                                                         *)
(* The specifications share the operators of these parts:                  *)
(*   GatewaySpec   - any caller invoking the ApiService methods            *)
(*   Spec          - the running page: load/hashchange events, user        *)
(*                   navigation, login submit/response, logout, reload     *)
(*   FairSpec      - Spec, every queued event being dispatched             *)
(*   BaseSpec      - the BaseComponent methods called on one bare instance *)
(*   ComponentSpec - the login, dashboard and list components, mounted and *)
(*                   replaced as views change, and their ApiService calls  *)
(*   RouterSpec    - the Router's methods called on a table that starts    *)
(*                   empty: register, navigate, the events, the credential *)
(*   ValidatorSpec - validateVitalSigns applied to a record of vital signs *)
(*   FormSpec      - the login/register form or the vital-signs form in    *)
(*                   use: typing, toggling, submitting, the calls settling *)
(*   ErrorsSpec    - FormSpec, and showVitalFieldErrors called with a map  *)
(*                   of errors keyed by field                              *)
(*   RangeSpec     - validateVitalSigns applied to measurements at the   *)
(*                   edges of their ranges                                 *)
(*   PatientsSpec  - the patients view: the paginated list searched and    *)
(*                   paged, the vital signs of a patient mounted           *)
(*   FilterSpec    - the PatientList that filters on the client: loaded,   *)
(*                   reloaded and searched                                 *)
(***************************************************************************)
EXTENDS Integers, Sequences, FiniteSets, TLC

VARIABLES
    token,        \* ApiService.token (in memory)
    storage,      \* localStorage['token'] (NULL when the key is absent)
    inflight,     \* requests handed to fetch and not yet settled
    lastCall,     \* the ApiService method a caller ran last, with what it returned
    fragment,     \* the URL fragment (window.location.hash without its '#')
    routes,       \* Router.routes
    currentRoute, \* Router.currentRoute
    navDisplay,   \* #main-nav style.display
    logoutBound,  \* click handlers bound to #logout-btn
    view,         \* what #main-content holds
    pendingHash,  \* hashchange events queued and not yet dispatched
    loadPending,  \* the window 'load' event has not been dispatched yet
    resolution,   \* what the handleRoute that ran last did (NoResolution otherwise)
    state,        \* BaseComponent._state of each component instance
    life,         \* where each instance is in its life: none, created, connected, disconnected
    shadow,       \* the state each instance's last render() drew (none yet: <<>>)
    trace,        \* the component methods the last step ran, in order
    applied,      \* the arguments of the setState calls made on the bare component
    heap,         \* the nested objects component states refer to
    snapshot,     \* the object the last getState() returned, as its holder has it now
    awaits,       \* component handlers suspended at an `await` of an ApiService call
    validators,   \* the components' dynamic import has bound `Validators`
    checked,      \* the Validators function a caller applies, its argument and result
    bound,        \* the handlers bound to the elements of each instance's shadow root
    latest        \* the PatientList's request issued last: outstanding, or its result

vars == <<token, storage, inflight, lastCall, fragment, routes,
          currentRoute, navDisplay, logoutBound, view, pendingHash, loadPending,
          resolution, state, life, shadow, trace, applied, heap, snapshot, awaits,
          validators, checked, bound, latest>>

----------------------------------------------------------------------------
(* JavaScript values *)

NULL == "<null>"
UNDEFINED == "<undefined>"

\* the tokens a caller or the remote side may supply
Tokens == {"abc", "xyz"}
\* what a caller may pass to setToken: a token string (possibly empty) or null
TokenArgs == Tokens \cup {"", NULL}

\* ToBoolean of a string-or-null value: `!!v`, `if (v)`, `v || ...`
Truthy(v) == v \notin {NULL, UNDEFINED, ""}

\* obj[key] of a parsed JSON object (undefined when the key is missing)
Get(obj, key) == IF key \in DOMAIN obj THEN obj[key] ELSE UNDEFINED

\* bounds of the model
MaxInflight == 2
MaxPending == 2
MaxApplied == 3
MaxAwaits == 2

----------------------------------------------------------------------------
(* ApiService: token and storage *)

baseURL == "/api"

\* constructor: `this.token = localStorage.getItem('token') || null`
ConstructorToken == IF Truthy(storage) THEN storage ELSE NULL

\* a setToken that never writes the storage
SetTokenNoStore(t) ==
    /\ token' = t
    /\ UNCHANGED storage

\* a setToken that writes the storage and not the field
SetTokenStorageOnly(t) ==
    /\ UNCHANGED token
    /\ storage' = IF Truthy(t) THEN t ELSE NULL

\* setToken(token)
SetToken(t) ==
    /\ token' = t
    /\ storage' = IF Truthy(t) THEN t ELSE NULL

\* getToken()
GetToken == token

\* isAuthenticated(): `!!this.token`
IsAuthenticated == Truthy(token)

\* a clearAuth that leaves the stored token behind
ClearAuthMemoryOnly ==
    /\ token' = NULL
    /\ UNCHANGED storage

\* clearAuth()
ClearAuth ==
    /\ token' = NULL
    /\ storage' = NULL

\* logout()
Logout == ClearAuth

----------------------------------------------------------------------------
(* ApiService: headers, request, verbs, domain calls *)

\* a getHeaders that adds Authorization whatever the token
GetHeadersAlwaysAuth ==
    [h \in {"Content-Type", "Authorization"} |->
        IF h = "Content-Type" THEN "application/json" ELSE "Bearer " \o token]

\* getHeaders()
GetHeaders ==
    IF Truthy(token)
    THEN [h \in {"Content-Type", "Authorization"} |->
            IF h = "Content-Type" THEN "application/json" ELSE "Bearer " \o token]
    ELSE [h \in {"Content-Type"} |-> "application/json"]

\* { ...a, ...b } : b's keys win
Spread(a, b) ==
    [k \in DOMAIN a \cup DOMAIN b |-> IF k \in DOMAIN b THEN b[k] ELSE a[k]]

NoHeaders == [h \in {} |-> ""]

\* the `config` request() hands to fetch, with the url
RequestConfig(endpoint, options) ==
    [url     |-> baseURL \o endpoint,
     method  |-> options.method,
     body    |-> options.body,
     headers |-> Spread(GetHeaders, options.headers)]

\* the options the verbs build (none passes headers)
GetOptions == [method |-> "GET", body |-> UNDEFINED, headers |-> NoHeaders]
PostOptions == [method |-> "POST", body |-> "json", headers |-> NoHeaders]
PutOptions == [method |-> "PUT", body |-> "json", headers |-> NoHeaders]
DeleteOptions == [method |-> "DELETE", body |-> UNDEFINED, headers |-> NoHeaders]


\* the calls of the ApiService a caller makes: the method, and the argument
\* that decides the endpoint
PatientId == "7"
Calls ==
    { [op |-> "login", arg |-> UNDEFINED],
      [op |-> "register", arg |-> UNDEFINED],
      [op |-> "getPatients", arg |-> "ann"],
      [op |-> "updatePatient", arg |-> PatientId],
      [op |-> "addVitalSigns", arg |-> PatientId],
      [op |-> "delete", arg |-> PatientId] }

\* the endpoint each call builds
Endpoint(c) ==
    CASE c.op = "login" -> "/login"
      [] c.op = "register" -> "/register"
      [] c.op = "getPatients" ->
            IF Truthy(c.arg) THEN "/patients?search=" \o c.arg ELSE "/patients"
      [] c.op = "getPatient" -> "/patients/" \o c.arg
      [] c.op = "createPatient" -> "/patients"
      [] c.op = "updatePatient" -> "/patients/" \o c.arg
      [] c.op = "addVitalSigns" -> "/patients/" \o c.arg \o "/vitals"
      [] c.op = "getVitalStatistics" -> "/patients/" \o c.arg \o "/vitals/stats"
      [] c.op = "delete" -> "/patients/" \o c.arg

\* the verb each call goes through
Options(c) ==
    CASE c.op \in {"login", "register", "createPatient", "addVitalSigns"} -> PostOptions
      [] c.op = "updatePatient" -> PutOptions
      [] c.op = "delete" -> DeleteOptions
      [] OTHER -> GetOptions

\* the synchronous part of a call: request() builds the config and hands it
\* to fetch
Issued(c) == [call |-> c, config |-> RequestConfig(Endpoint(c), Options(c))]

(* what the transport can do with one fetch *)
FieldErrors == [heart_rate |-> "Heart rate must be between 20 and 300"]
EmptyObject == [k \in {} |-> ""]
Bodies ==
    { EmptyObject,
      [token |-> "xyz"],
      [error |-> "Invalid credentials"],
      [errors |-> FieldErrors] }
Statuses == {200, 400, 401}
NoOutcome == [kind |-> "none", status |-> 0, parsable |-> FALSE, body |-> EmptyObject]
Outcomes ==
    { [kind |-> "reject", status |-> 0, parsable |-> FALSE, body |-> EmptyObject] }
    \cup [kind : {"response"}, status : Statuses, parsable : {FALSE}, body : {EmptyObject}]
    \cup [kind : {"response"}, status : Statuses, parsable : {TRUE}, body : Bodies]

\* response.ok
Ok(o) == o.status \in 200..299

Return(v) == [type |-> "return", value |-> v]
Throw(message) == [type |-> "throw", value |-> [message |-> message]]

\* the try block of request(): fetch, response.json(), the !response.ok throw
TryBlock(o) ==
    IF o.kind = "reject" THEN Throw("Failed to fetch")
    ELSE IF ~o.parsable THEN Throw("Unexpected token in JSON")
    ELSE IF ~Ok(o)
         THEN Throw(IF Truthy(Get(o.body, "error"))
                    THEN o.body["error"]
                    ELSE "HTTP " \o ToString(o.status))
    ELSE Return([success |-> TRUE, data |-> o.body])

\* a request() whose catch is missing
RequestNoCatch(o) == TryBlock(o)

\* request(): the try block, and the catch that turns a throw into a result
Request(o) ==
    LET c == TryBlock(o)
    IN  IF c.type = "throw"
        THEN Return([success |-> FALSE, error |-> c.value.message])
        ELSE c

\* login(): `result.success && result.data.token`
LoginStores(completion) ==
    /\ completion.type = "return"
    /\ completion.value.success
    /\ Truthy(Get(completion.value.data, "token"))

\* a settle that stores the token whichever call returned it
SettleAnyCall(c, completion) ==
    IF LoginStores(completion)
    THEN SetToken(completion.value.data["token"])
    ELSE UNCHANGED <<token, storage>>

\* a settle that drops the credential when the call has failed
SettleClearsOnFailure(c, completion) ==
    IF ~completion.value.success THEN ClearAuth
    ELSE IF c.op = "login" /\ LoginStores(completion)
         THEN SetToken(completion.value.data["token"])
         ELSE UNCHANGED <<token, storage>>

\* what a call does to the credential once its request has settled
Settle(c, completion) ==
    IF c.op = "login" /\ LoginStores(completion)
    THEN SetToken(completion.value.data["token"])
    ELSE UNCHANGED <<token, storage>>

\* a request() that hands a failed attempt to fetch once more
OutstandingRetried(fl, i, completion) ==
    IF completion.value.success
    THEN SubSeq(fl, 1, i - 1) \o SubSeq(fl, i + 1, Len(fl))
    ELSE Append(SubSeq(fl, 1, i - 1) \o SubSeq(fl, i + 1, Len(fl)), fl[i])

\* what request() leaves with fetch when the attempt fl[i] has settled:
\* its try block awaits one fetch, and its catch returns without another
Outstanding(fl, i, completion) ==
    SubSeq(fl, 1, i - 1) \o SubSeq(fl, i + 1, Len(fl))

----------------------------------------------------------------------------
(* BaseComponent *)

\* the component instances: a bare subclass of BaseComponent (only render()
\* is defined), the LoginComponent, DashboardComponent and PatientList the
\* views hold, and the VitalSigns of the patients view
Components == {"base", "login", "dashboard", "list", "vitals"}

\* nested objects are held by reference
Refs == {"p1", "p2"}
NestedKeys == {"pagination"}
PageValues == {1, 2}
InitialHeap == [r \in Refs |-> [page |-> 1]]

\* a state as its reader sees it: each reference followed into heap h
Deref(h, s) == [k \in DOMAIN s |-> IF k \in NestedKeys THEN h[s[k]] ELSE s[k]]

\* the components as a handler finds them; `trace` starts empty at each step
Now == [state |-> state, shadow |-> shadow, trace |-> <<>>, bound |-> bound]

Ran(w, entry) == [w EXCEPT !.trace = Append(@, entry)]

\* no element of a shadow root has a handler
NoHandlers == [el \in {} |-> 0]

\* a render() that keeps the elements it finds, and the handlers bound to them
RenderKeepsElements(w, c) ==
    Ran([w EXCEPT !.shadow[c] = <<w.state[c]>>], <<"render", c, w.state[c]>>)

\* render() of a subclass: `this.shadowRoot.innerHTML = ...`, the shadow root
\* is redrawn from the state with new elements, which no handler is bound to
Render(w, c) ==
    Ran([w EXCEPT !.shadow[c] = <<w.state[c]>>, !.bound[c] = NoHandlers],
        <<"render", c, w.state[c]>>)

\* the elements attachEventListeners() of subclass c finds in the shadow root
\* and binds a handler to
Listeners(w, c) ==
    IF w.shadow[c] = <<>> THEN {}
    ELSE LET drawn == w.shadow[c][1]
         IN  CASE c = "login" -> {"auth-form", "toggle-btn"}
               [] c = "dashboard" ->
                     IF drawn.stats # <<>> THEN {"new-patient-btn", "view-patients-btn"}
                     ELSE {}
               [] c = "list" ->
                     {"search-input"}
                     \cup (IF ~drawn.loading /\ drawn.filteredPatients # <<>>
                           THEN {"view-vitals-btn"}
                                \cup (IF /\ "pagination" \in DOMAIN drawn
                                          /\ drawn.pagination.pages > 1
                                      THEN {"prev-btn", "next-btn"} ELSE {})
                           ELSE {})
               [] c = "vitals" ->
                     (IF drawn.patient # <<>> THEN {"add-vital-btn"} ELSE {})
                     \cup (IF drawn.showForm
                           THEN {"vital-form", "cancel-form-btn"}
                                \cup (IF validators THEN {"input"} ELSE {})
                           ELSE {})
               [] OTHER -> {}

\* attachEventListeners(): one addEventListener on each element found
AttachEventListeners(w, c) ==
    LET had == w.bound[c]
        has == [el \in DOMAIN had \cup Listeners(w, c) |->
                   (IF el \in DOMAIN had THEN had[el] ELSE 0)
                   + (IF el \in Listeners(w, c) THEN 1 ELSE 0)]
    IN  Ran([w EXCEPT !.bound[c] = has], <<"attachEventListeners", c>>)

OnStateChange(w, c, oldState, newState) ==
    Ran(w, <<"onStateChange", c, oldState, newState>>)

Cleanup(w, c) == Ran(w, <<"cleanup", c>>)

\* constructor: `this._state = {}`
Constructor(w, c) ==
    Ran([w EXCEPT !.state[c] = EmptyObject, !.shadow[c] = <<>>, !.bound[c] = NoHandlers],
        <<"constructor", c>>)

\* connectedCallback()
ConnectedCallback(w, c) == AttachEventListeners(Render(w, c), c)

\* a disconnectedCallback that destroys the state
DisconnectedCallbackClearsState(w, c) ==
    Cleanup([w EXCEPT !.state[c] = EmptyObject], c)

\* disconnectedCallback()
DisconnectedCallback(w, c) == Cleanup(w, c)

\* getState(): `{ ...this._state }`, a new object with the same values
GetState(w, c) == w.state[c]

\* a setState in which the keys already held win
SetStateOldKeysWin(w, c, newState) ==
    LET oldState == w.state[c]
        merged == [w EXCEPT !.state[c] = Spread(newState, w.state[c])]
        called == Ran(merged, <<"setState", c, newState>>)
        hooked == OnStateChange(called, c, oldState, called.state[c])
    IN  AttachEventListeners(Render(hooked, c), c)

\* a setState that redraws only when the merge changed something
SetStateSkipsUnchanged(w, c, newState) ==
    LET oldState == w.state[c]
        merged == [w EXCEPT !.state[c] = Spread(w.state[c], newState)]
        called == Ran(merged, <<"setState", c, newState>>)
        hooked == OnStateChange(called, c, oldState, called.state[c])
    IN  IF called.state[c] = oldState THEN hooked
        ELSE AttachEventListeners(Render(hooked, c), c)

\* a setState on a state object that all instances share
SetStateShared(w, c, newState) ==
    LET oldState == w.state[c]
        merged == [w EXCEPT !.state = [d \in Components |->
                                          IF d = c \/ DOMAIN w.state[d] # {}
                                          THEN Spread(w.state[d], newState)
                                          ELSE w.state[d]]]
        called == Ran(merged, <<"setState", c, newState>>)
        hooked == OnStateChange(called, c, oldState, called.state[c])
    IN  AttachEventListeners(Render(hooked, c), c)

\* setState(newState): merge, onStateChange(old, new), render, attachEventListeners
SetState(w, c, newState) ==
    LET oldState == w.state[c]
        merged == [w EXCEPT !.state[c] = Spread(w.state[c], newState)]
        called == Ran(merged, <<"setState", c, newState>>)
        hooked == OnStateChange(called, c, oldState, called.state[c])
    IN  AttachEventListeners(Render(hooked, c), c)

\* what a handler leaves behind
Commit(w) ==
    /\ state' = w.state
    /\ shadow' = w.shadow
    /\ trace' = w.trace
    /\ bound' = w.bound

\* no Validators function is applied by a caller, and the binding stays
NoCheck == [fn |-> "none", arg |-> <<>>, done |-> FALSE, result |-> <<>>]
ValidatorsIdle == UNCHANGED <<validators, checked>>

\* no request of the PatientList is issued or settled
NoRequest == [outstanding |-> FALSE, result |-> <<>>]
ListIdle == UNCHANGED latest

\* no component method runs in this step
ComponentsIdle ==
    /\ trace' = <<>>
    /\ UNCHANGED <<state, life, shadow, applied, heap, snapshot, awaits, bound>>
    /\ ValidatorsIdle
    /\ ListIdle

NoSnapshot == [of |-> NULL, value |-> EmptyObject]

ComponentsInit ==
    /\ state = [c \in Components |-> EmptyObject]
    /\ life = [c \in Components |-> "none"]
    /\ shadow = [c \in Components |-> <<>>]
    /\ trace = <<>>
    /\ applied = <<>>
    /\ heap = InitialHeap
    /\ snapshot = NoSnapshot
    /\ awaits = <<>>
    /\ validators = TRUE
    /\ checked = NoCheck
    /\ bound = [c \in Components |-> NoHandlers]
    /\ latest = NoRequest

----------------------------------------------------------------------------
(* GatewaySpec: the ApiService methods, called in any order *)

\* the record of a call: a synchronous method ("sync"), an asynchronous one up
\* to its fetch ("issued"), or an asynchronous one returning ("settled")
Called(op, arg, phase, outcome, ret) ==
    lastCall' = [op |-> op, arg |-> arg, phase |-> phase, outcome |-> outcome,
                 ret |-> ret]

RemoveAt(s, i) == SubSeq(s, 1, i - 1) \o SubSeq(s, i + 1, Len(s))

NoResolution ==
    [ran |-> FALSE, path |-> UNDEFINED, params |-> <<>>, authed |-> FALSE,
     redirect |-> NULL, routePath |-> NULL, handler |-> UNDEFINED]

\* the page's router, untouched by a bare gateway call
RouterIdle ==
    /\ resolution' = NoResolution
    /\ UNCHANGED <<fragment, routes, currentRoute, navDisplay, logoutBound, view,
                   pendingHash, loadPending>>

GwSetToken(t) ==
    /\ SetToken(t)
    /\ Called("setToken", t, "sync", NoOutcome, UNDEFINED)
    /\ UNCHANGED inflight
    /\ RouterIdle
    /\ ComponentsIdle

GwGetToken ==
    /\ Called("getToken", UNDEFINED, "sync", NoOutcome, GetToken)
    /\ UNCHANGED <<token, storage, inflight>>
    /\ RouterIdle
    /\ ComponentsIdle

GwIsAuthenticated ==
    /\ Called("isAuthenticated", UNDEFINED, "sync", NoOutcome, IsAuthenticated)
    /\ UNCHANGED <<token, storage, inflight>>
    /\ RouterIdle
    /\ ComponentsIdle

GwClearAuth ==
    /\ ClearAuth
    /\ Called("clearAuth", UNDEFINED, "sync", NoOutcome, UNDEFINED)
    /\ UNCHANGED inflight
    /\ RouterIdle
    /\ ComponentsIdle

GwLogout ==
    /\ Logout
    /\ Called("logout", UNDEFINED, "sync", NoOutcome, UNDEFINED)
    /\ UNCHANGED inflight
    /\ RouterIdle
    /\ ComponentsIdle

\* `new ApiService()` while ApiService.instance exists: that instance is returned
GwNew ==
    /\ Called("new", UNDEFINED, "sync", NoOutcome, UNDEFINED)
    /\ UNCHANGED <<token, storage, inflight>>
    /\ RouterIdle
    /\ ComponentsIdle

\* a fresh instance (a new page): the constructor reads the storage, and what
\* the old page had in flight is gone with it. The record keeps the argument
\* of a setToken that ran just before.
GwFresh ==
    /\ token' = ConstructorToken
    /\ UNCHANGED storage
    /\ inflight' = <<>>
    /\ Called("construct",
              IF lastCall.op = "setToken" THEN <<lastCall.arg>> ELSE <<>>,
              "sync", NoOutcome, UNDEFINED)
    /\ RouterIdle
    /\ ComponentsIdle

\* a verb or domain call, up to its `await fetch(...)`
GwCall(c) ==
    /\ Len(inflight) < MaxInflight
    /\ inflight' = Append(inflight, Issued(c))
    /\ Called(c.op, c.arg, "issued", NoOutcome, UNDEFINED)
    /\ UNCHANGED <<token, storage>>
    /\ RouterIdle
    /\ ComponentsIdle

\* the fetch of inflight[i] settles with outcome o and the call returns
GwSettle(i, o) ==
    /\ i \in 1..Len(inflight)
    /\ LET r == inflight[i]
           completion == Request(o)
       IN  /\ Settle(r.call, completion)
           /\ Called(r.call.op, r.call.arg, "settled", o, completion)
           /\ inflight' = Outstanding(inflight, i, completion)
    /\ RouterIdle
    /\ ComponentsIdle

GatewayNext ==
    \/ \E t \in TokenArgs : GwSetToken(t)
    \/ GwGetToken
    \/ GwIsAuthenticated
    \/ GwClearAuth
    \/ GwLogout
    \/ GwNew
    \/ GwFresh
    \/ \E c \in Calls : GwCall(c)
    \/ \E i \in 1..MaxInflight, o \in Outcomes : GwSettle(i, o)

----------------------------------------------------------------------------
(* Router *)

\* app.js: the routes registered at startup, each with the view it renders
AppRoutes ==
    [p \in {"/", "/login", "/dashboard", "/patients", "/404"} |->
        CASE p = "/" -> "login"
          [] p = "/login" -> "login"
          [] p = "/dashboard" -> "dashboard"
          [] p = "/patients" -> "patients"
          [] p = "/404" -> "404"]

\* Locations the page is opened at or the user moves to, as the characters of
\* the fragment: "/" and "?" are those characters, any other element is a
\* maximal run of other characters
Locations ==
    { <<>>,
      <<"/">>,
      <<"?", "q">>,
      <<"/", "login">>,
      <<"login">>,
      <<"/", "login", "?", "q">>,
      <<"/", "/", "login", "/">>,
      <<"/", "register">>,
      <<"/", "dashboard">>,
      <<"/", "dashboard", "/", "login">>,
      <<"/", "patients">>,
      <<"/", "patients", "?", "patientId=7">>,
      <<"/", "404">>,
      <<"/", "foo">>,
      <<"/", "foo", "/", "bar">>,
      <<"/", "foo", "?", "login">> }


\* window.location.hash: '' for an empty fragment, else '#' and the fragment
LocationHash == IF fragment = <<>> THEN <<>> ELSE <<"#">> \o fragment

\* s.slice(1)
Slice1(s) == IF s = <<>> THEN <<>> ELSE Tail(s)

\* s.split(sep)[0]
RECURSIVE BeforeFirst(_, _)
BeforeFirst(s, sep) ==
    IF s = <<>> \/ Head(s) = sep THEN <<>>
    ELSE <<Head(s)>> \o BeforeFirst(Tail(s), sep)

\* s.split('/').filter(Boolean)
IsSegment(a) == a # "/"
Segments(s) == SelectSeq(s, IsSegment)

\* handleRoute: `hash`, `pathPart`, `path` and `params`
RouteHash == IF Slice1(LocationHash) = <<>> THEN <<"/">> ELSE Slice1(LocationHash)
PathPart == BeforeFirst(RouteHash, "?")
Path == IF Segments(PathPart) = <<>> THEN UNDEFINED ELSE Head(Segments(PathPart))
Params == IF Segments(PathPart) = <<>> THEN <<>> ELSE Tail(Segments(PathPart))

\* a public list without the login path
PublicRoutesWithoutLogin == {"", "register"}

\* a public list that lets one more path through
PublicRoutesWithFoo == {"", "login", "register", "foo"}

\* handleRoute: `publicRoutes` and `isPublicRoute`
PublicRoutes == {"", "login", "register"}
IsPublicRoute == Path \in PublicRoutes

\* handleRoute: `/${path || ''}`
RoutePath == "/" \o (IF Truthy(Path) THEN Path ELSE "")

\* a lookup without the '/404' fallback
HandlerNoFallback == Get(routes, RoutePath)

\* handleRoute: `this.routes[routePath] || this.routes['/404']`
Handler ==
    IF RoutePath \in DOMAIN routes THEN routes[RoutePath] ELSE Get(routes, "/404")

\* the fragment a path string sets
Fragment(path) ==
    CASE path = "/login" -> <<"/", "login">>
      [] path = "/dashboard" -> <<"/", "dashboard">>

\* a navigate that changes the fragment without a hashchange event
NavigateNoEvent(path, queued) ==
    /\ fragment' = Fragment(path)
    /\ pendingHash' = queued

\* navigate(path): `window.location.hash = path`; the browser queues a
\* hashchange event when the fragment changes. `queued` counts the events
\* queued before the assignment.
Navigate(path, queued) ==
    /\ fragment' = Fragment(path)
    /\ pendingHash' = IF Fragment(path) # fragment THEN queued + 1 ELSE queued

\* an updateNavigation that shows the navigation whoever asks
UpdateNavigationShown ==
    /\ navDisplay' = "flex"
    /\ logoutBound' = IF logoutBound = 0 THEN 1 ELSE logoutBound

\* an updateNavigation that binds a click handler each time it runs
UpdateNavigationRebinds ==
    IF IsAuthenticated
    THEN /\ navDisplay' = "flex"
         /\ logoutBound' = logoutBound + 1
    ELSE /\ navDisplay' = "none"
         /\ UNCHANGED logoutBound

\* updateNavigation()
UpdateNavigation ==
    IF IsAuthenticated
    THEN /\ navDisplay' = "flex"
         /\ logoutBound' = IF logoutBound = 0 THEN 1 ELSE logoutBound
    ELSE /\ navDisplay' = "none"
         /\ UNCHANGED logoutBound

\* renderView(viewName)
RenderView(viewName) == view' = viewName

Resolved(redirect, routePath, handler) ==
    resolution' = [ran |-> TRUE, path |-> Path, params |-> Params,
                   authed |-> IsAuthenticated, redirect |-> redirect,
                   routePath |-> routePath, handler |-> handler]

\* a handleRoute that records the route before it looks for the handler
HandleRouteRecordsFirst(queued) ==
    IF ~IsPublicRoute /\ ~IsAuthenticated
    THEN /\ Navigate("/login", queued)
         /\ Resolved("/login", NULL, UNDEFINED)
         /\ UNCHANGED <<currentRoute, navDisplay, logoutBound, view>>
    ELSE IF IsPublicRoute /\ IsAuthenticated /\ Path # "register"
    THEN /\ Navigate("/dashboard", queued)
         /\ Resolved("/dashboard", NULL, UNDEFINED)
         /\ UNCHANGED <<currentRoute, navDisplay, logoutBound, view>>
    ELSE /\ UpdateNavigation
         /\ Resolved(NULL, RoutePath, Handler)
         /\ pendingHash' = queued
         /\ UNCHANGED fragment
         /\ currentRoute' = RoutePath
         /\ IF Handler # UNDEFINED
            THEN RenderView(Handler)
            ELSE UNCHANGED view

\* handleRoute(), run for one event; `queued` counts the events still queued
HandleRoute(queued) ==
    IF ~IsPublicRoute /\ ~IsAuthenticated
    THEN /\ Navigate("/login", queued)
         /\ Resolved("/login", NULL, UNDEFINED)
         /\ UNCHANGED <<currentRoute, navDisplay, logoutBound, view>>
    ELSE IF IsPublicRoute /\ IsAuthenticated /\ Path # "register"
    THEN /\ Navigate("/dashboard", queued)
         /\ Resolved("/dashboard", NULL, UNDEFINED)
         /\ UNCHANGED <<currentRoute, navDisplay, logoutBound, view>>
    ELSE /\ UpdateNavigation
         /\ Resolved(NULL, RoutePath, Handler)
         /\ pendingHash' = queued
         /\ UNCHANGED fragment
         /\ IF Handler # UNDEFINED
            THEN /\ currentRoute' = RoutePath
                 /\ RenderView(Handler)
            ELSE UNCHANGED <<currentRoute, view>>

----------------------------------------------------------------------------
(* Spec: the page *)

\* no ApiService method runs in this step
GatewayIdle ==
    /\ Called("none", UNDEFINED, "sync", NoOutcome, UNDEFINED)
    /\ UNCHANGED <<token, storage, inflight>>

\* handleRoute and updateNavigation ask apiService.isAuthenticated()
RouteAsks ==
    /\ Called("isAuthenticated", UNDEFINED, "sync", NoOutcome, IsAuthenticated)
    /\ UNCHANGED <<token, storage, inflight>>

\* the window 'load' event
LoadEvent ==
    /\ loadPending
    /\ loadPending' = FALSE
    /\ HandleRoute(pendingHash)
    /\ UNCHANGED routes
    /\ RouteAsks
    /\ ComponentsIdle

\* one queued 'hashchange' event
HashChangeEvent ==
    /\ ~loadPending
    /\ pendingHash > 0
    /\ HandleRoute(pendingHash - 1)
    /\ UNCHANGED <<routes, loadPending>>
    /\ RouteAsks
    /\ ComponentsIdle

\* the user moves to another location (a link, the address bar, history)
UserNavigate(loc) ==
    /\ ~loadPending
    /\ pendingHash < MaxPending
    /\ loc # fragment
    /\ fragment' = loc
    /\ pendingHash' = pendingHash + 1
    /\ resolution' = NoResolution
    /\ UNCHANGED <<routes, currentRoute, navDisplay, logoutBound, view, loadPending>>
    /\ GatewayIdle
    /\ ComponentsIdle

\* LoginComponent.handleLogin up to `await apiService.login(...)`; the
\* component is what the login view holds
LoginSubmit ==
    /\ view = "login"
    /\ Len(inflight) < MaxInflight
    /\ inflight' = Append(inflight, Issued([op |-> "login", arg |-> UNDEFINED]))
    /\ Called("login", UNDEFINED, "issued", NoOutcome, UNDEFINED)
    /\ resolution' = NoResolution
    /\ UNCHANGED <<token, storage>>
    /\ UNCHANGED <<fragment, routes, currentRoute, navDisplay, logoutBound, view,
                   pendingHash, loadPending>>
    /\ ComponentsIdle

\* the login request settles: login() stores the token, handleLogin goes on
LoginSettle(i, o) ==
    /\ i \in 1..Len(inflight)
    /\ pendingHash < MaxPending
    /\ inflight[i].call.op = "login"
    /\ LET completion == Request(o)
       IN  /\ Settle(inflight[i].call, completion)
           /\ Called("login", UNDEFINED, "settled", o, completion)
           /\ IF completion.type = "return" /\ completion.value.success
              THEN Navigate("/dashboard", pendingHash)
              ELSE UNCHANGED <<fragment, pendingHash>>
    /\ inflight' = RemoveAt(inflight, i)
    /\ resolution' = NoResolution
    /\ UNCHANGED <<routes, currentRoute, navDisplay, logoutBound, view, loadPending>>
    /\ ComponentsIdle

\* a click on #logout-btn, once per handler bound to it
LogoutClick ==
    /\ navDisplay = "flex"
    /\ logoutBound > 0
    /\ pendingHash < MaxPending
    /\ Logout
    /\ Called("logout", UNDEFINED, "sync", NoOutcome, UNDEFINED)
    /\ Navigate("/login", pendingHash)
    /\ resolution' = NoResolution
    /\ UNCHANGED <<inflight, routes, currentRoute, navDisplay, logoutBound, view,
                   loadPending>>
    /\ ComponentsIdle

\* the page is loaded again at the same location: modules run anew
Reload ==
    /\ token' = ConstructorToken
    /\ inflight' = <<>>
    /\ currentRoute' = NULL
    /\ navDisplay' = "initial"
    /\ logoutBound' = 0
    /\ view' = "none"
    /\ pendingHash' = 0
    /\ loadPending' = TRUE
    /\ resolution' = NoResolution
    /\ Called("construct", <<>>, "sync", NoOutcome, UNDEFINED)
    /\ UNCHANGED <<storage, fragment, routes>>
    /\ ComponentsIdle

Init ==
    /\ storage \in Tokens \cup {NULL}
    /\ token = ConstructorToken
    /\ inflight = <<>>
    /\ lastCall = [op |-> "construct", arg |-> <<>>, phase |-> "sync",
                   outcome |-> NoOutcome, ret |-> UNDEFINED]
    /\ fragment \in Locations
    /\ routes = AppRoutes
    /\ currentRoute = NULL
    /\ navDisplay = "initial"
    /\ logoutBound = 0
    /\ view = "none"
    /\ pendingHash = 0
    /\ loadPending = TRUE
    /\ resolution = NoResolution
    /\ ComponentsInit

Next ==
    \/ LoadEvent
    \/ HashChangeEvent
    \/ \E loc \in Locations : UserNavigate(loc)
    \/ LoginSubmit
    \/ \E i \in 1..MaxInflight, o \in Outcomes : LoginSettle(i, o)
    \/ LogoutClick
    \/ Reload

Spec == Init /\ [][Next]_vars

\* the page whose browser dispatches every event it has queued
FairSpec == Spec /\ WF_vars(LoadEvent) /\ WF_vars(HashChangeEvent)

\* the gateway alone: the page rests at the root location
GatewayInit ==
    /\ Init
    /\ fragment = <<>>

GatewaySpec == GatewayInit /\ [][GatewayNext]_vars

----------------------------------------------------------------------------
(* BaseSpec: the BaseComponent methods, called on one bare instance *)

\* no gateway method and no router method runs in this step
PageIdle ==
    /\ UNCHANGED <<token, storage, inflight, lastCall, fragment, routes, currentRoute,
                   navDisplay, logoutBound, view, pendingHash, loadPending, resolution>>
    /\ ValidatorsIdle
    /\ ListIdle

\* what a caller may pass to setState
Partials ==
    { EmptyObject,
      [loading |-> TRUE, error |-> NULL],
      [loading |-> FALSE, error |-> "Failed to fetch"],
      [pagination |-> "p1"],
      [loading |-> FALSE, pagination |-> "p2"] }

\* document.createElement: a new instance, with the objects its caller holds
BaseNew ==
    /\ life["base"] \in {"none", "disconnected"}
    /\ Commit(Constructor(Now, "base"))
    /\ life' = [life EXCEPT !["base"] = "created"]
    /\ applied' = <<>>
    /\ heap' = InitialHeap
    /\ snapshot' = NoSnapshot
    /\ UNCHANGED awaits
    /\ PageIdle

\* the instance is put into the document
BaseConnect ==
    /\ life["base"] = "created"
    /\ Commit(ConnectedCallback(Now, "base"))
    /\ life' = [life EXCEPT !["base"] = "connected"]
    /\ UNCHANGED <<applied, heap, snapshot, awaits>>
    /\ PageIdle

\* the instance is taken out of the document
BaseDisconnect ==
    /\ life["base"] = "connected"
    /\ Commit(DisconnectedCallback(Now, "base"))
    /\ life' = [life EXCEPT !["base"] = "disconnected"]
    /\ UNCHANGED <<applied, heap, snapshot, awaits>>
    /\ PageIdle

\* whoever holds the instance calls setState(p)
BaseSetState(p) ==
    /\ life["base"] # "none"
    /\ Len(applied) < MaxApplied
    /\ Commit(SetState(Now, "base", p))
    /\ applied' = Append(applied, p)
    /\ UNCHANGED <<life, heap, snapshot, awaits>>
    /\ PageIdle

\* whoever holds the instance calls getState() and keeps what it returns
BaseGetState ==
    /\ life["base"] # "none"
    /\ snapshot' = [of |-> "base", value |-> GetState(Now, "base")]
    /\ trace' = << <<"getState", "base">> >>
    /\ UNCHANGED <<state, life, shadow, applied, heap, awaits, bound>>
    /\ PageIdle

\* the holder of the returned object assigns one of its keys: s.loading = v
BaseMutateKey(v) ==
    /\ snapshot.of = "base"
    /\ "loading" \in DOMAIN snapshot.value => snapshot.value["loading"] # v
    /\ snapshot' = [snapshot EXCEPT !.value = Spread(@, [loading |-> v])]
    /\ trace' = << <<"mutate", "base", "loading">> >>
    /\ UNCHANGED <<state, life, shadow, applied, heap, awaits, bound>>
    /\ PageIdle

\* the holder assigns inside a nested value: s.pagination.page = v
BaseMutateNested(v) ==
    /\ snapshot.of = "base"
    /\ "pagination" \in DOMAIN snapshot.value
    /\ heap[snapshot.value["pagination"]].page # v
    /\ heap' = [heap EXCEPT ![snapshot.value["pagination"]].page = v]
    /\ trace' = << <<"mutate", "base", "pagination">> >>
    /\ UNCHANGED <<state, life, shadow, applied, snapshot, awaits, bound>>
    /\ PageIdle

BaseNext ==
    \/ BaseNew
    \/ BaseConnect
    \/ BaseDisconnect
    \/ \E p \in Partials : BaseSetState(p)
    \/ BaseGetState
    \/ \E v \in BOOLEAN : BaseMutateKey(v)
    \/ \E v \in PageValues : BaseMutateNested(v)

\* the components alone: no credential, the page rests at the root location
BaseInit ==
    /\ GatewayInit
    /\ storage = NULL

BaseSpec == BaseInit /\ [][BaseNext]_vars

----------------------------------------------------------------------------
(* ComponentSpec: the LoginComponent, the DashboardComponent and the        *)
(* PatientList, mounted and replaced as the views change, and their calls   *)

\* the pagination the constructor of the PatientList sets
InitialPagination ==
    [page |-> 1, per_page |-> 10, total |-> 0, pages |-> 0, has_next |-> FALSE,
     has_prev |-> FALSE]

\* the pagination of a response that holds the one record there is
OnePage ==
    [page |-> 1, per_page |-> 10, total |-> 1, pages |-> 1, has_next |-> FALSE,
     has_prev |-> FALSE]

\* the params object loadPatients builds: `{page, per_page}`, and
\* `params.search = searchTerm` for a truthy term
ListParams(page, pagination, searchTerm) ==
    IF Truthy(searchTerm)
    THEN [page |-> page, per_page |-> pagination.per_page, search |-> searchTerm]
    ELSE [page |-> page, per_page |-> pagination.per_page]

\* what the constructor of each subclass passes to setState
InitialState(c) ==
    CASE c = "login" -> [error |-> NULL, loading |-> FALSE, showRegister |-> FALSE]
      [] c = "dashboard" -> [stats |-> <<>>, loading |-> TRUE, error |-> NULL]
      [] c = "list" -> [patients |-> <<>>, filteredPatients |-> <<>>, loading |-> TRUE,
                        error |-> NULL, searchTerm |-> "", selectedPatient |-> NULL,
                        pagination |-> InitialPagination]
      \* patientId: null is written 0, which is falsy as well and no record's id
      [] c = "vitals" -> [patientId |-> 0, patient |-> <<>>, vitals |-> <<>>,
                          statistics |-> <<>>, loading |-> TRUE, error |-> NULL,
                          showForm |-> FALSE, formLoading |-> FALSE,
                          formError |-> NULL, formSuccess |-> NULL]

\* what the user may type into #search-input
SearchTerms == {"", "an"}

\* the answers the remote side gives to a component's call: an auth failure,
\* and successes with an empty body, with a token, with records
Answers ==
    { [kind |-> "response", status |-> 401, parsable |-> TRUE,
       body |-> [error |-> "Invalid credentials"]],
      [kind |-> "response", status |-> 200, parsable |-> TRUE, body |-> EmptyObject],
      [kind |-> "response", status |-> 200, parsable |-> TRUE, body |-> [token |-> "xyz"]],
      [kind |-> "response", status |-> 200, parsable |-> TRUE,
       body |-> [patients |-> <<"7">>, pagination |-> OnePage]] }

\* `data.patients || []`
PatientsOr(data) == IF "patients" \in DOMAIN data THEN data["patients"] ELSE <<>>

\* patients.slice(0, 5)
Slice05(patients) ==
    SubSeq(patients, 1, IF Len(patients) < 5 THEN Len(patients) ELSE 5)

\* a handler suspended at `await apiService...`, with the locals it goes on with
Awaiting(c, handler, call, kept) ==
    [by |-> c, handler |-> handler, call |-> call, kept |-> kept]

AwaitsOf(aw, c) == {i \in 1..Len(aw) : aw[i].by = c}

\* handleLogin up to its await
HandleLoginStart(w) == SetState(w, "login", [loading |-> TRUE, error |-> NULL])

\* handleLogin after a failed login
HandleLoginFailed(w, result) ==
    SetState(w, "login",
             [loading |-> FALSE,
              error |-> IF Truthy(result.error) THEN result.error ELSE "Login failed"])

\* loadDashboardData up to its await
LoadDashboardDataStart(w) == SetState(w, "dashboard", [loading |-> TRUE, error |-> NULL])

\* loadDashboardData from its await on
LoadDashboardDataEnd(w, result) ==
    IF result.success
    THEN LET patients == PatientsOr(result.data)
         IN  SetState(w, "dashboard",
                      [stats |-> <<[totalPatients |-> Len(patients),
                                    recentPatients |-> Slice05(patients)]>>,
                       loading |-> FALSE])
    ELSE SetState(w, "dashboard", [loading |-> FALSE, error |-> result.error])

\* loadPatients up to its await
LoadPatientsStart(w) == SetState(w, "list", [loading |-> TRUE, error |-> NULL])

\* loadPatients from its await on; `pagination` is the one read before the call
LoadPatientsEnd(w, result, pagination) ==
    IF result.success
    THEN LET data == result.data
         IN  SetState(w, "list",
                      [patients |-> PatientsOr(data),
                       filteredPatients |-> PatientsOr(data),
                       pagination |-> IF "pagination" \in DOMAIN data
                                      THEN data["pagination"] ELSE pagination,
                       loading |-> FALSE])
    ELSE SetState(w, "list", [loading |-> FALSE, error |-> result.error])

\* the instances a replaced view leaves: the connected one is disconnected,
\* and a disconnected one no handler waits for is gone
Connected == {c \in Components : life[c] = "connected"}
Gone == {c \in Components : life[c] = "disconnected" /\ AwaitsOf(awaits, c) = {}}

RECURSIVE DisconnectAll(_, _)
DisconnectAll(w, cs) ==
    IF cs = {} THEN w
    ELSE LET c == CHOOSE x \in cs : TRUE
         IN  DisconnectAll(DisconnectedCallback(w, c), cs \ {c})

\* `mainContent.innerHTML = ...`: what the view held is taken out of the document
Replaced ==
    LET w == DisconnectAll(Now, Connected)
    IN  [w EXCEPT !.state = [c \in Components |-> IF c \in Gone THEN EmptyObject ELSE @[c]],
                  !.shadow = [c \in Components |-> IF c \in Gone THEN <<>> ELSE @[c]],
                  !.bound = [c \in Components |-> IF c \in Gone THEN NoHandlers ELSE @[c]]]

LifeReplaced ==
    [c \in Components |->
        IF c \in Connected THEN "disconnected"
        ELSE IF c \in Gone THEN "none" ELSE life[c]]

\* a new instance of c is created and connected: the constructors, then
\* BaseComponent.connectedCallback
Created(w, c) == ConnectedCallback(SetState(Constructor(w, c), c, InitialState(c)), c)

\* the login view is rendered
ShowLogin ==
    /\ AwaitsOf(awaits, "login") = {}
    /\ Commit(Created(Replaced, "login"))
    /\ life' = [LifeReplaced EXCEPT !["login"] = "connected"]
    /\ UNCHANGED <<applied, heap, snapshot, awaits>>
    /\ PageIdle

\* the dashboard view is rendered: connectedCallback goes on into
\* loadDashboardData
ShowDashboard ==
    /\ AwaitsOf(awaits, "dashboard") = {}
    /\ Len(awaits) < MaxAwaits
    /\ Commit(LoadDashboardDataStart(Created(Replaced, "dashboard")))
    /\ awaits' = Append(awaits, Awaiting("dashboard", "loadDashboardData",
                                         [op |-> "getPatients", arg |-> ""], NULL))
    /\ life' = [LifeReplaced EXCEPT !["dashboard"] = "connected"]
    /\ UNCHANGED <<applied, heap, snapshot>>
    /\ PageIdle

\* the patients view is rendered: connectedCallback goes on into loadPatients
ShowPatients ==
    /\ AwaitsOf(awaits, "list") = {}
    /\ Len(awaits) < MaxAwaits
    /\ LET w == LoadPatientsStart(Created(Replaced, "list"))
       IN  /\ Commit(w)
           /\ awaits' = Append(awaits, Awaiting("list", "loadPatients",
                                                [op |-> "getPatients",
                                                 arg |-> ListParams(1, w.state["list"]["pagination"], "")],
                                                w.state["list"]["pagination"]))
    /\ life' = [LifeReplaced EXCEPT !["list"] = "connected"]
    /\ UNCHANGED <<applied, heap, snapshot>>
    /\ PageIdle

\* the not-found view, which holds no component, is rendered
ShowNotFound ==
    /\ Connected # {}
    /\ Commit(Replaced)
    /\ life' = LifeReplaced
    /\ UNCHANGED <<applied, heap, snapshot, awaits>>
    /\ PageIdle

\* the login form is submitted with both fields filled
SubmitLogin ==
    /\ life["login"] = "connected"
    /\ Len(awaits) < MaxAwaits
    /\ Commit(HandleLoginStart(Now))
    /\ awaits' = Append(awaits, Awaiting("login", "handleLogin",
                                         [op |-> "login", arg |-> UNDEFINED], NULL))
    /\ UNCHANGED <<life, applied, heap, snapshot>>
    /\ PageIdle

\* an 'input' event of #search-input: filterPatients(term)
SearchInput(term) ==
    /\ life["list"] = "connected"
    /\ term # state["list"]["searchTerm"]
    /\ Len(awaits) < MaxAwaits
    /\ LET w == LoadPatientsStart(SetState(Now, "list", [searchTerm |-> term]))
       IN  /\ Commit(w)
           /\ awaits' = Append(awaits, Awaiting("list", "loadPatients",
                                                [op |-> "getPatients",
                                                 arg |-> ListParams(1, w.state["list"]["pagination"], term)],
                                                w.state["list"]["pagination"]))
    /\ UNCHANGED <<life, applied, heap, snapshot>>
    /\ PageIdle

\* the call awaits[i] waits for settles with answer o, and its handler goes on
Resume(i, o) ==
    /\ i \in 1..Len(awaits)
    /\ LET e == awaits[i]
           completion == Request(o)
           result == completion.value
           w == Ran(Now, <<"resume", e.by, e.handler, o.status>>)
       IN  /\ Settle(e.call, completion)
           /\ CASE e.handler = "handleLogin" ->
                     IF result.success
                     THEN /\ Navigate("/dashboard", pendingHash)
                          /\ Commit(w)
                     ELSE /\ UNCHANGED <<fragment, pendingHash>>
                          /\ Commit(HandleLoginFailed(w, result))
                [] e.handler = "loadDashboardData" ->
                     /\ UNCHANGED <<fragment, pendingHash>>
                     /\ Commit(LoadDashboardDataEnd(w, result))
                [] e.handler = "loadPatients" ->
                     /\ UNCHANGED <<fragment, pendingHash>>
                     /\ Commit(LoadPatientsEnd(w, result, e.kept))
    /\ awaits' = RemoveAt(awaits, i)
    /\ UNCHANGED <<life, applied, heap, snapshot>>
    /\ UNCHANGED <<inflight, lastCall, routes, currentRoute, navDisplay, logoutBound,
                   view, loadPending, resolution>>
    /\ ValidatorsIdle
    /\ ListIdle

ComponentNext ==
    \/ ShowLogin
    \/ ShowDashboard
    \/ ShowPatients
    \/ ShowNotFound
    \/ SubmitLogin
    \/ \E term \in SearchTerms : SearchInput(term)
    \/ \E i \in 1..MaxAwaits, o \in Answers : Resume(i, o)

\* the page holds a credential and rests at the login location
ViewsInit ==
    /\ Init
    /\ storage = "abc"
    /\ fragment = <<"/", "login">>

ComponentSpec == ViewsInit /\ [][ComponentNext]_vars


----------------------------------------------------------------------------
(* RouterSpec: the Router's methods called by any caller; the table starts  *)
(* empty, as the constructor leaves it                                      *)

\* the paths and the callbacks a caller registers (a callback is named by
\* the view it renders)
RegisterPaths == {"/login", "/dashboard", "/404"}
Callbacks == {"login", "dashboard"}

\* the locations the page is opened at or moved to under RouterSpec
RouterLocations ==
    { <<>>,
      <<"/", "login">>,
      <<"/", "register">>,
      <<"/", "dashboard">>,
      <<"/", "foo", "/", "bar">> }

\* a register that keeps the callback a path already has
RegisterFirstWins(table, path, handler) ==
    [p \in DOMAIN table \cup {path} |->
        IF p \in DOMAIN table THEN table[p] ELSE handler]

\* register(path, handler): `this.routes[path] = handler`
Register(table, path, handler) ==
    [p \in DOMAIN table \cup {path} |-> IF p = path THEN handler ELSE table[p]]

RouterRegister(path, handler) ==
    /\ routes' = Register(routes, path, handler)
    /\ Called("register", <<path, handler>>, "sync", NoOutcome, UNDEFINED)
    /\ resolution' = NoResolution
    /\ UNCHANGED <<token, storage, inflight>>
    /\ UNCHANGED <<fragment, currentRoute, navDisplay, logoutBound, view,
                   pendingHash, loadPending>>
    /\ ComponentsIdle

\* a caller runs router.navigate(path)
RouterNavigate(path) ==
    /\ pendingHash < MaxPending
    /\ Navigate(path, pendingHash)
    /\ Called("navigate", path, "sync", NoOutcome, UNDEFINED)
    /\ resolution' = NoResolution
    /\ UNCHANGED <<token, storage, inflight>>
    /\ UNCHANGED <<routes, currentRoute, navDisplay, logoutBound, view, loadPending>>
    /\ ComponentsIdle

RouterInit ==
    /\ storage \in {"abc", NULL}
    /\ token = ConstructorToken
    /\ inflight = <<>>
    /\ lastCall = [op |-> "construct", arg |-> <<>>, phase |-> "sync",
                   outcome |-> NoOutcome, ret |-> UNDEFINED]
    /\ fragment \in RouterLocations
    /\ routes = EmptyObject
    /\ currentRoute = NULL
    /\ navDisplay = "initial"
    /\ logoutBound = 0
    /\ view = "none"
    /\ pendingHash = 0
    /\ loadPending = TRUE
    /\ resolution = NoResolution
    /\ ComponentsInit

RouterNext ==
    \/ \E p \in RegisterPaths, h \in Callbacks : RouterRegister(p, h)
    \/ \E path \in {"/login", "/dashboard"} : RouterNavigate(path)
    \/ LoadEvent
    \/ HashChangeEvent
    \/ \E loc \in RouterLocations : UserNavigate(loc)
    \/ GwSetToken("abc")
    \/ GwClearAuth

RouterSpec == RouterInit /\ [][RouterNext]_vars

----------------------------------------------------------------------------
(* Validators: the vital-sign rules. A measurement is <<>> (null: its input *)
(* was left empty) or <<n>>, n a whole number; a text is the sequence of    *)
(* its characters.                                                          *)

Valid == [valid |-> TRUE]
Invalid(error) == [valid |-> FALSE, error |-> error]

\* ToBoolean of a measurement: null and 0 are falsy
TruthyNumber(v) == v # <<>> /\ v[1] # 0

\* text.trim(): the blanks at both ends are dropped
RECURSIVE TrimStart(_)
TrimStart(text) ==
    IF text # <<>> /\ Head(text) = " " THEN TrimStart(Tail(text)) ELSE text

RECURSIVE Trim(_)
Trim(text) ==
    LET t == TrimStart(text)
    IN  IF t # <<>> /\ t[Len(t)] = " " THEN Trim(SubSeq(t, 1, Len(t) - 1)) ELSE t

\* validateTextLength(text, maxLength, fieldName, required)
ValidateTextLength(text, maxLength, fieldName, required) ==
    IF text = <<>> \/ Trim(text) = <<>>
    THEN IF required THEN Invalid(fieldName \o " is required") ELSE Valid
    ELSE IF Len(text) > maxLength
         THEN Invalid(fieldName \o " must not exceed " \o ToString(maxLength)
                      \o " characters")
         ELSE Valid

\* validateVitalSign(value, min, max, fieldName, isInteger): parseInt and
\* parseFloat of a whole number give that number, which is never NaN
ValidateVitalSign(value, min, max, fieldName) ==
    IF value = <<>> THEN Valid
    ELSE IF value[1] < min \/ value[1] > max
         THEN Invalid(fieldName \o " must be between " \o ToString(min)
                      \o " and " \o ToString(max))
         ELSE Valid

\* errors.join('; ')
RECURSIVE Join(_)
Join(errors) ==
    IF errors = <<>> THEN ""
    ELSE IF Len(errors) = 1 THEN errors[1]
    ELSE errors[1] \o "; " \o Join(Tail(errors))

\* the error a failed check pushes
Pushed(result) == IF result.valid THEN <<>> ELSE <<result.error>>

\* a validateBloodPressure that lets equal values through
ValidateBloodPressureStrict(systolic, diastolic) ==
    LET errors ==
            Pushed(ValidateVitalSign(systolic, 40, 300, "Systolic BP"))
            \o Pushed(ValidateVitalSign(diastolic, 20, 200, "Diastolic BP"))
            \o (IF /\ TruthyNumber(systolic)
                   /\ TruthyNumber(diastolic)
                   /\ systolic[1] < diastolic[1]
                THEN <<"Systolic BP must be greater than Diastolic BP">>
                ELSE <<>>)
    IN  IF Len(errors) > 0 THEN Invalid(Join(errors)) ELSE Valid

\* validateBloodPressure(systolic, diastolic)
ValidateBloodPressure(systolic, diastolic) ==
    LET errors ==
            Pushed(ValidateVitalSign(systolic, 40, 300, "Systolic BP"))
            \o Pushed(ValidateVitalSign(diastolic, 20, 200, "Diastolic BP"))
            \o (IF /\ TruthyNumber(systolic)
                   /\ TruthyNumber(diastolic)
                   /\ systolic[1] <= diastolic[1]
                THEN <<"Systolic BP must be greater than Diastolic BP">>
                ELSE <<>>)
    IN  IF Len(errors) > 0 THEN Invalid(Join(errors)) ELSE Valid

\* `errors[key] = result.error` when the check failed
Entry(key, result) ==
    IF result.valid THEN EmptyObject ELSE [k \in {key} |-> result.error]

\* a check made only for a truthy measurement
IfGiven(value, key, result) ==
    IF TruthyNumber(value) THEN Entry(key, result) ELSE EmptyObject

\* validateVitalSigns(vitalData)
ValidateVitalSigns(vitalData) ==
    LET d == vitalData
        hasAnyValue ==
            \/ TruthyNumber(d.blood_pressure_systolic)
            \/ TruthyNumber(d.blood_pressure_diastolic)
            \/ TruthyNumber(d.heart_rate)
            \/ TruthyNumber(d.temperature)
            \/ TruthyNumber(d.respiratory_rate)
            \/ TruthyNumber(d.oxygen_saturation)
        errors ==
            Spread(Spread(Spread(Spread(Spread(Spread(
                Entry("blood_pressure",
                      ValidateBloodPressure(d.blood_pressure_systolic,
                                            d.blood_pressure_diastolic)),
                IfGiven(d.heart_rate, "heart_rate",
                        ValidateVitalSign(d.heart_rate, 20, 300, "Heart Rate"))),
                IfGiven(d.temperature, "temperature",
                        ValidateVitalSign(d.temperature, 30, 45, "Temperature"))),
                IfGiven(d.respiratory_rate, "respiratory_rate",
                        ValidateVitalSign(d.respiratory_rate, 5, 100,
                                          "Respiratory Rate"))),
                IfGiven(d.oxygen_saturation, "oxygen_saturation",
                        ValidateVitalSign(d.oxygen_saturation, 0, 100,
                                          "Oxygen Saturation"))),
                IF hasAnyValue THEN EmptyObject
                ELSE [k \in {"general"} |->
                         "At least one vital sign measurement is required"]),
                IF d.notes # <<>>
                THEN Entry("notes", ValidateTextLength(d.notes, 500, "Notes", FALSE))
                ELSE EmptyObject)
    IN  [valid |-> DOMAIN errors = {}, errors |-> errors]

----------------------------------------------------------------------------
(* ValidatorSpec: validateVitalSigns applied to one record of measurements *)

\* the record handleFormSubmit builds from the inputs
VitalData(systolic, diastolic, heartRate, temperature, respiratoryRate, oxygenSaturation, notes) ==
    [blood_pressure_systolic |-> systolic,
     blood_pressure_diastolic |-> diastolic,
     heart_rate |-> heartRate,
     temperature |-> temperature,
     respiratory_rate |-> respiratoryRate,
     oxygen_saturation |-> oxygenSaturation,
     notes |-> notes]

\* the measurements tried: every pressure in its range, one step out of it
\* on either side, 0 and none; with and without a heart rate out of its range
Measurements(low, high) == {<<>>, <<0>>} \cup {<<n>> : n \in (low - 1)..(high + 1)}
VitalRecords ==
    { VitalData(s, d, h, <<>>, <<>>, <<>>, <<>>) :
          s \in Measurements(40, 300), d \in Measurements(20, 200),
          h \in {<<>>, <<500>>} }

\* a caller applies validateVitalSigns to the record
ApplyValidator ==
    /\ ~checked.done
    /\ checked' = [checked EXCEPT !.done = TRUE,
                                  !.result = ValidateVitalSigns(checked.arg)]
    /\ UNCHANGED <<token, storage, inflight, lastCall, fragment, routes, currentRoute,
                   navDisplay, logoutBound, view, pendingHash, loadPending, resolution>>
    /\ UNCHANGED <<state, life, shadow, trace, applied, heap, snapshot, awaits,
                   validators, bound, latest>>

ValidatorInit ==
    /\ checked \in [fn : {"validateVitalSigns"}, arg : VitalRecords, done : {FALSE},
                    result : {<<>>}]
    /\ validators = TRUE
    /\ token = NULL
    /\ storage = NULL
    /\ inflight = <<>>
    /\ lastCall = [op |-> "construct", arg |-> <<>>, phase |-> "sync",
                   outcome |-> NoOutcome, ret |-> UNDEFINED]
    /\ fragment = <<>>
    /\ routes = AppRoutes
    /\ currentRoute = NULL
    /\ navDisplay = "initial"
    /\ logoutBound = 0
    /\ view = "none"
    /\ pendingHash = 0
    /\ loadPending = TRUE
    /\ resolution = NoResolution
    /\ state = [c \in Components |-> EmptyObject]
    /\ life = [c \in Components |-> "none"]
    /\ shadow = [c \in Components |-> <<>>]
    /\ trace = <<>>
    /\ applied = <<>>
    /\ heap = InitialHeap
    /\ snapshot = NoSnapshot
    /\ awaits = <<>>
    /\ bound = [c \in Components |-> NoHandlers]
    /\ latest = NoRequest

ValidatorSpec == ValidatorInit /\ [][ApplyValidator]_vars

----------------------------------------------------------------------------
(* RangeSpec: validateVitalSigns applied to measurements at the edges of
   their ranges *)

\* the limits validateVitalSigns and validateBloodPressure pass to
\* validateVitalSign, by key of the record
Ranges ==
    [blood_pressure_systolic |-> [min |-> 40, max |-> 300],
     blood_pressure_diastolic |-> [min |-> 20, max |-> 200],
     heart_rate |-> [min |-> 20, max |-> 300],
     temperature |-> [min |-> 30, max |-> 45],
     respiratory_rate |-> [min |-> 5, max |-> 100],
     oxygen_saturation |-> [min |-> 0, max |-> 100]]

\* the measurements tried for one key: none, 0, and the two ends of the range
\* with the step outside each
Edges(key) ==
    {<<>>, <<0>>, <<Ranges[key].min - 1>>, <<Ranges[key].min>>,
     <<Ranges[key].max>>, <<Ranges[key].max + 1>>}

RangeRecords ==
    { VitalData(s, d, h, t, r, o, <<>>) :
          s \in Edges("blood_pressure_systolic"),
          d \in Edges("blood_pressure_diastolic"),
          h \in Edges("heart_rate"), t \in Edges("temperature"),
          r \in Edges("respiratory_rate"), o \in Edges("oxygen_saturation") }

RangeInit ==
    /\ checked \in [fn : {"validateVitalSigns"}, arg : RangeRecords, done : {FALSE},
                    result : {<<>>}]
    /\ validators = TRUE
    /\ token = NULL
    /\ storage = NULL
    /\ inflight = <<>>
    /\ lastCall = [op |-> "construct", arg |-> <<>>, phase |-> "sync",
                   outcome |-> NoOutcome, ret |-> UNDEFINED]
    /\ fragment = <<>>
    /\ routes = AppRoutes
    /\ currentRoute = NULL
    /\ navDisplay = "initial"
    /\ logoutBound = 0
    /\ view = "none"
    /\ pendingHash = 0
    /\ loadPending = TRUE
    /\ resolution = NoResolution
    /\ state = [c \in Components |-> EmptyObject]
    /\ life = [c \in Components |-> "none"]
    /\ shadow = [c \in Components |-> <<>>]
    /\ trace = <<>>
    /\ applied = <<>>
    /\ heap = InitialHeap
    /\ snapshot = NoSnapshot
    /\ awaits = <<>>
    /\ bound = [c \in Components |-> NoHandlers]
    /\ latest = NoRequest

RangeSpec == RangeInit /\ [][ApplyValidator]_vars

----------------------------------------------------------------------------
(* Validators: the account rules *)

Lowers == {"a", "b", "c", "d", "e", "f", "g", "h", "i", "j", "k", "l", "m",
           "n", "o", "p", "q", "r", "s", "t", "u", "v", "w", "x", "y", "z"}
Uppers == {"A", "B", "C", "D", "E", "F", "G", "H", "I", "J", "K", "L", "M",
           "N", "O", "P", "Q", "R", "S", "T", "U", "V", "W", "X", "Y", "Z"}
Digits == {"0", "1", "2", "3", "4", "5", "6", "7", "8", "9"}
Specials == {"!", "@", "#", "$", "%", "^", "&", "*", "(", ")", "_", "+", "-",
             "=", "[", "]", "{", "}", "|", ";", ":", ",", ".", "<", ">", "?"}

\* /[class]/.test(text) and /^[class]*$/.test(text)
Has(text, class) == \E i \in 1..Len(text) : text[i] \in class
All(text, class) == \A i \in 1..Len(text) : text[i] \in class

\* validateRequired(value, fieldName)
ValidateRequired(value, fieldName) ==
    IF value = <<>> \/ Trim(value) = <<>>
    THEN Invalid(fieldName \o " is required")
    ELSE Valid

\* usernameRegex.test(text)
UsernameRegex(text) ==
    /\ Len(text) \in 3..80
    /\ All(text, Lowers \cup Uppers \cup Digits \cup {"_", "-"})

\* validateUsername(username)
ValidateUsername(username) ==
    LET result == ValidateRequired(username, "Username")
    IN  IF ~result.valid THEN result
        ELSE IF Len(username) < 3
             THEN Invalid("Username must be at least 3 characters")
        ELSE IF Len(username) > 80
             THEN Invalid("Username must not exceed 80 characters")
        ELSE IF ~UsernameRegex(username)
             THEN Invalid("Username can only contain letters, numbers, underscores, and hyphens")
        ELSE Valid

\* emailRegex.test(text): local part, '@', domain, '.', two letters or more
EmailRegex(text) ==
    \E i \in 2..Len(text), j \in 4..(Len(text) - 2) :
        /\ i + 2 <= j
        /\ text[i] = "@"
        /\ text[j] = "."
        /\ All(SubSeq(text, 1, i - 1),
               Lowers \cup Uppers \cup Digits \cup {".", "_", "%", "+", "-"})
        /\ All(SubSeq(text, i + 1, j - 1), Lowers \cup Uppers \cup Digits \cup {".", "-"})
        /\ All(SubSeq(text, j + 1, Len(text)), Lowers \cup Uppers)

\* validateEmail(email, required)
ValidateEmail(email, required) ==
    IF email = <<>> \/ Trim(email) = <<>>
    THEN IF required THEN Invalid("Email is required") ELSE Valid
    ELSE IF Len(email) > 120 THEN Invalid("Email must not exceed 120 characters")
    ELSE IF ~EmailRegex(email) THEN Invalid("Invalid email format")
    ELSE Valid

\* a validatePassword without its length checks
ValidatePasswordClassesOnly(password) ==
    LET result == ValidateRequired(password, "Password")
    IN  IF ~result.valid THEN result
        ELSE IF \/ ~Has(password, Uppers)
                \/ ~Has(password, Lowers)
                \/ ~Has(password, Digits)
                \/ ~Has(password, Specials)
             THEN Invalid("Password must contain uppercase, lowercase, digit, and special character")
        ELSE Valid

\* validatePassword(password)
ValidatePassword(password) ==
    LET result == ValidateRequired(password, "Password")
    IN  IF ~result.valid THEN result
        ELSE IF Len(password) < 8
             THEN Invalid("Password must be at least 8 characters")
        ELSE IF Len(password) > 128
             THEN Invalid("Password must not exceed 128 characters")
        ELSE IF \/ ~Has(password, Uppers)
                \/ ~Has(password, Lowers)
                \/ ~Has(password, Digits)
                \/ ~Has(password, Specials)
             THEN Invalid("Password must contain uppercase, lowercase, digit, and special character")
        ELSE Valid

----------------------------------------------------------------------------
(* Forms: what the shadow root of a component holds besides what render()   *)
(* drew. shadow[c] is <<drawn>> right after a render and <<drawn, form>>    *)
(* once an input was typed into or an error element was added next to one.  *)

\* the form as render() leaves it: every input empty, no error element
BlankForm == [values |-> EmptyObject, marks |-> EmptyObject]

FormOf(w, c) == IF Len(w.shadow[c]) > 1 THEN w.shadow[c][2] ELSE BlankForm
WithForm(w, c, form) == [w EXCEPT !.shadow[c] = <<@[1], form>>]

\* the inputs render() drew
VitalInputs == {"bp-systolic", "bp-diastolic", "heart-rate", "temperature",
                "respiratory-rate", "oxygen-saturation", "notes"}
Inputs(w, c) ==
    IF w.shadow[c] = <<>> THEN {}
    ELSE LET drawn == w.shadow[c][1]
         IN  CASE c = "login" ->
                     {"username", "password"}
                     \cup (IF drawn.showRegister THEN {"email", "confirm-password"}
                           ELSE {})
               [] c = "vitals" -> IF drawn.showForm THEN VitalInputs ELSE {}
               [] OTHER -> {}

\* `this.$('#id').value`: '' (or no number) for an input left empty
ValueOf(w, c, id) ==
    IF id \in DOMAIN FormOf(w, c).values THEN FormOf(w, c).values[id] ELSE <<>>

\* the user types into #id
Typed(w, c, id, value) ==
    WithForm(w, c, [FormOf(w, c) EXCEPT !.values = Spread(@, [k \in {id} |-> value])])

\* Validators.clearFieldError(field): the error element next to it is removed
ClearFieldError(w, c, id) ==
    IF id \in DOMAIN FormOf(w, c).marks
    THEN WithForm(w, c, [FormOf(w, c) EXCEPT
                            !.marks = [k \in DOMAIN @ \ {id} |-> @[k]]])
    ELSE w

\* Validators.clearFormErrors(form): no render() draws an .alert-danger
ClearFormErrors(w, c) ==
    IF FormOf(w, c).marks # EmptyObject
    THEN WithForm(w, c, [FormOf(w, c) EXCEPT !.marks = EmptyObject])
    ELSE w

\* Validators.showFieldError(field, message)
ShowFieldError(w, c, id, message) ==
    WithForm(w, c, [FormOf(w, c) EXCEPT !.marks = Spread(@, [k \in {id} |-> message])])

\* Object.values(errors).join(separator)
RECURSIVE JoinValues(_, _)
JoinValues(errors, separator) ==
    IF DOMAIN errors = {} THEN ""
    ELSE LET k == CHOOSE x \in DOMAIN errors : TRUE
             rest == [x \in DOMAIN errors \ {k} |-> errors[x]]
         IN  IF DOMAIN rest = {} THEN errors[k]
             ELSE errors[k] \o separator \o JoinValues(rest, separator)

\* what the synchronous part of an async handler leaves: it has returned, or
\* it is suspended at the `await` of a call
Returned(w) == [w |-> w, awaiting |-> <<>>]
Suspended(w, entry) == [w |-> w, awaiting |-> <<entry>>]

----------------------------------------------------------------------------
(* LoginComponent: the toggle, handleSubmit, handleRegister *)

\* the click handler of #toggle-btn
ToggleRegister(w) ==
    SetState(w, "login", [showRegister |-> ~GetState(w, "login").showRegister,
                          error |-> NULL])

\* a 'click' event of #toggle-btn: every handler bound to it when the event
\* is dispatched runs
RECURSIVE Dispatched(_, _)
Dispatched(w, handlers) ==
    IF handlers = 0 THEN w ELSE Dispatched(ToggleRegister(w), handlers - 1)

\* handleLogin(username, password) up to its await
HandleLogin(w, username, password) ==
    Suspended(HandleLoginStart(w),
              Awaiting("login", "handleLogin",
                       [op |-> "login", arg |-> <<username, password>>], NULL))

Refused(w, message) == Returned(SetState(w, "login", [error |-> message]))

\* a handleRegister that does not ask Validators about the password
HandleRegisterAnyPassword(w, username, password) ==
    LET email == Trim(ValueOf(w, "login", "email"))
        confirmPassword == ValueOf(w, "login", "confirm-password")
        called == Ran(w, <<"handleRegister", username, email, password,
                           confirmPassword>>)
    IN  IF email = <<>> THEN Refused(called, "Email is required")
        ELSE IF validators /\ ~ValidateUsername(username).valid
             THEN Refused(called, ValidateUsername(username).error)
        ELSE IF validators /\ ~ValidateEmail(email, TRUE).valid
             THEN Refused(called, ValidateEmail(email, TRUE).error)
        ELSE IF password # confirmPassword
             THEN Refused(called, "Passwords do not match")
        ELSE Suspended(SetState(called, "login", [loading |-> TRUE, error |-> NULL]),
                       Awaiting("login", "handleRegister",
                                [op |-> "register",
                                 arg |-> <<username, email, password>>],
                                <<username, password>>))

\* handleRegister(username, password) up to its await
HandleRegister(w, username, password) ==
    LET email == Trim(ValueOf(w, "login", "email"))
        confirmPassword == ValueOf(w, "login", "confirm-password")
        called == Ran(w, <<"handleRegister", username, email, password,
                           confirmPassword>>)
    IN  IF email = <<>> THEN Refused(called, "Email is required")
        ELSE IF validators /\ ~ValidateUsername(username).valid
             THEN Refused(called, ValidateUsername(username).error)
        ELSE IF validators /\ ~ValidateEmail(email, TRUE).valid
             THEN Refused(called, ValidateEmail(email, TRUE).error)
        ELSE IF validators /\ ~ValidatePassword(password).valid
             THEN Refused(called, ValidatePassword(password).error)
        ELSE IF password # confirmPassword
             THEN Refused(called, "Passwords do not match")
        ELSE Suspended(SetState(called, "login", [loading |-> TRUE, error |-> NULL]),
                       Awaiting("login", "handleRegister",
                                [op |-> "register",
                                 arg |-> <<username, email, password>>],
                                <<username, password>>))

\* handleSubmit(e) up to the first await
HandleSubmit(w) ==
    LET showRegister == GetState(w, "login").showRegister
        username == Trim(ValueOf(w, "login", "username"))
        password == ValueOf(w, "login", "password")
    IN  IF username = <<>> \/ password = <<>>
        THEN Refused(w, "Please fill in all fields")
        ELSE IF showRegister THEN HandleRegister(w, username, password)
        ELSE HandleLogin(w, username, password)

\* a handleRegister that goes on to handleLogin whatever register answered
HandleRegisterEndAlwaysLogin(w, result, kept) == HandleLogin(w, kept[1], kept[2])

\* handleRegister from its await on
HandleRegisterEnd(w, result, kept) ==
    IF result.success THEN HandleLogin(w, kept[1], kept[2])
    ELSE IF "data" \in DOMAIN result /\ "errors" \in DOMAIN result.data
    THEN Returned(SetState(w, "login",
                           [loading |-> FALSE,
                            error |-> JoinValues(result.data["errors"], ", ")]))
    ELSE Returned(SetState(w, "login",
                           [loading |-> FALSE,
                            error |-> IF Truthy(result.error) THEN result.error
                                      ELSE "Registration failed"]))

----------------------------------------------------------------------------
(* VitalSigns: the form buttons, handleFormSubmit, showVitalFieldErrors,    *)
(* loadPatientData                                                          *)

\* showVitalFieldErrors: `fieldMap`
FieldMap ==
    [blood_pressure_systolic |-> "bp-systolic",
     blood_pressure_diastolic |-> "bp-diastolic",
     blood_pressure |-> "bp-systolic",
     heart_rate |-> "heart-rate",
     temperature |-> "temperature",
     respiratory_rate |-> "respiratory-rate",
     oxygen_saturation |-> "oxygen-saturation",
     notes |-> "notes"]

\* the keys of an error map in the order Object.entries gives them: the order
\* in which validateVitalSigns sets them, a map of the remote side likewise
ErrorKeys ==
    <<"blood_pressure_systolic", "blood_pressure_diastolic", "blood_pressure",
      "heart_rate", "temperature", "respiratory_rate", "oxygen_saturation",
      "general", "notes">>

\* showVitalFieldErrors: the entries shown next to an input, those with a
\* mapped input that is in the shadow root, Validators being bound
Shown(w, errors) ==
    {k \in DOMAIN errors \ {"general"} :
        /\ k \in DOMAIN FieldMap
        /\ FieldMap[k] \in Inputs(w, "vitals")
        /\ validators}

\* showVitalFieldErrors: the loop over Object.entries(errors)
RECURSIVE ShowEach(_, _, _)
ShowEach(w, errors, keys) ==
    IF keys = <<>> THEN w
    ELSE IF Head(keys) \in Shown(w, errors)
         THEN ShowEach(ShowFieldError(w, "vitals", FieldMap[Head(keys)],
                                      errors[Head(keys)]),
                       errors, Tail(keys))
         ELSE ShowEach(w, errors, Tail(keys))

\* showVitalFieldErrors: `errorSummary`
ErrorSummary(errorCount) ==
    IF errorCount = 1 THEN "Please fix the validation error below."
    ELSE "Please fix the " \o ToString(errorCount) \o " validation errors below."

\* showVitalFieldErrors(errors)
ShowVitalFieldErrors(w, errors) ==
    LET called == Ran(w, <<"showVitalFieldErrors", errors>>)
        idle == SetState(called, "vitals", [formLoading |-> FALSE])
        cleared == IF Inputs(idle, "vitals") # {} /\ validators
                   THEN ClearFormErrors(idle, "vitals")
                   ELSE idle
        marked == ShowEach(cleared, errors, ErrorKeys)
        errorCount == Cardinality(Shown(cleared, errors))
    IN  IF "general" \in DOMAIN errors /\ Truthy(errors["general"])
        THEN SetState(marked, "vitals", [formError |-> errors["general"]])
        ELSE IF errorCount > 0
        THEN SetState(marked, "vitals", [formError |-> ErrorSummary(errorCount)])
        ELSE marked

\* handleFormSubmit: `vitalData`, built from the inputs of shadow root w
ReadVitalData(w) ==
    VitalData(ValueOf(w, "vitals", "bp-systolic"),
              ValueOf(w, "vitals", "bp-diastolic"),
              ValueOf(w, "vitals", "heart-rate"),
              ValueOf(w, "vitals", "temperature"),
              ValueOf(w, "vitals", "respiratory-rate"),
              ValueOf(w, "vitals", "oxygen-saturation"),
              Trim(ValueOf(w, "vitals", "notes")))

\* a handleFormSubmit that sends the record whatever validateVitalSigns says
HandleFormSubmitUnchecked(w) ==
    LET patientId == GetState(w, "vitals").patientId
        cleared == IF validators THEN ClearFormErrors(w, "vitals") ELSE w
        reset == SetState(cleared, "vitals", [formError |-> NULL, formSuccess |-> NULL])
        vitalData == ReadVitalData(reset)
        called == Ran(reset, <<"handleFormSubmit", ReadVitalData(w), vitalData>>)
    IN  Suspended(SetState(called, "vitals",
                           [formLoading |-> TRUE, formError |-> NULL,
                            formSuccess |-> NULL]),
                  Awaiting("vitals", "handleFormSubmit",
                           [op |-> "addVitalSigns", arg |-> <<patientId, vitalData>>],
                           NULL))

\* handleFormSubmit(e) up to its await. The inputs are read after the
\* setState that clears the messages, from the shadow root that setState drew;
\* the entry of the trace keeps what the inputs held when the event fired.
HandleFormSubmit(w) ==
    LET patientId == GetState(w, "vitals").patientId
        cleared == IF validators THEN ClearFormErrors(w, "vitals") ELSE w
        reset == SetState(cleared, "vitals", [formError |-> NULL, formSuccess |-> NULL])
        vitalData == ReadVitalData(reset)
        called == Ran(reset, <<"handleFormSubmit", ReadVitalData(w), vitalData>>)
    IN  IF validators /\ ~ValidateVitalSigns(vitalData).valid
        THEN Returned(ShowVitalFieldErrors(called, ValidateVitalSigns(vitalData).errors))
        ELSE Suspended(SetState(called, "vitals",
                                [formLoading |-> TRUE, formError |-> NULL,
                                 formSuccess |-> NULL]),
                       Awaiting("vitals", "handleFormSubmit",
                                [op |-> "addVitalSigns",
                                 arg |-> <<patientId, vitalData>>],
                                NULL))

\* loadPatientData() up to its await of the three calls
LoadPatientData(w) ==
    LET patientId == GetState(w, "vitals").patientId
    IN  IF patientId = 0 THEN Returned(w)
        ELSE Suspended(SetState(w, "vitals", [loading |-> TRUE, error |-> NULL]),
                       Awaiting("vitals", "loadPatientData",
                                [op |-> "getPatient", arg |-> patientId], NULL))

\* loadPatientData from its await on, with the three results
LoadPatientDataEnd(w, patientResult, vitalsResult, statsResult) ==
    IF patientResult.success
    THEN SetState(w, "vitals",
                  [patient |-> <<patientResult.data["patient"]>>,
                   vitals |-> IF vitalsResult.success
                              THEN vitalsResult.data["vitals"] ELSE <<>>,
                   statistics |-> IF statsResult.success
                                  THEN <<statsResult.data["statistics"]>> ELSE <<>>,
                   loading |-> FALSE])
    ELSE SetState(w, "vitals", [loading |-> FALSE, error |-> patientResult.error])

\* handleFormSubmit from its await on
HandleFormSubmitEnd(w, result) ==
    IF result.success
    THEN LoadPatientData(SetState(w, "vitals",
                                  [formLoading |-> FALSE,
                                   formSuccess |-> "Vital signs added successfully!",
                                   showForm |-> FALSE]))
    ELSE IF "data" \in DOMAIN result /\ "errors" \in DOMAIN result.data
    THEN Returned(ShowVitalFieldErrors(w, result.data["errors"]))
    ELSE Returned(SetState(w, "vitals",
                           [formLoading |-> FALSE,
                            formError |-> IF Truthy(result.error) THEN result.error
                                          ELSE "Failed to add vital signs"]))

----------------------------------------------------------------------------
(* FormSpec: the login/register form or the vital-signs form in use: the    *)
(* user types, toggles, opens, cancels and submits, and the calls settle    *)

\* how many submissions of a form wait for their call at once
MaxSubmits == 1

\* what the user types into the inputs of the login form
LoginValues ==
    [username |-> {<<"a", "b">>, <<"a", "n", "n">>},
     email |-> {<<"a", "@", "b">>, <<"a", "@", "b", ".", "c", "o">>},
     password |-> {<<"w", "e", "a", "k">>,
                   <<"w", "e", "a", "k", "w", "e", "a", "k">>,
                   <<"W", "e", "a", "k", "1", "!", "x", "x">>},
     confirm |-> {<<"w", "e", "a", "k">>,
                  <<"W", "e", "a", "k", "1", "!", "x", "x">>}]
LoginTyped(id) ==
    CASE id = "username" -> LoginValues.username
      [] id = "email" -> LoginValues.email
      [] id = "password" -> LoginValues.password
      [] id = "confirm-password" -> LoginValues.confirm

\* what the user types into the inputs of the vitals form
VitalTyped(id) ==
    CASE id = "bp-systolic" -> {<<90>>, <<120>>}
      [] id = "bp-diastolic" -> {<<80>>, <<120>>}
      [] id = "heart-rate" -> {<<500>>}
      [] OTHER -> {}

\* the VitalSigns of patient 7 once its data is loaded, none recorded yet
VitalsLoaded ==
    [patientId |-> 7, patient |-> <<[first_name |-> "Ann"]>>, vitals |-> <<>>,
     statistics |-> <<>>, loading |-> FALSE, error |-> NULL, showForm |-> FALSE,
     formLoading |-> FALSE, formError |-> NULL, formSuccess |-> NULL]

\* the answers to the three calls of loadPatientData
PatientAnswers ==
    { [kind |-> "response", status |-> 401, parsable |-> TRUE,
       body |-> [error |-> "Invalid credentials"]],
      [kind |-> "response", status |-> 200, parsable |-> TRUE,
       body |-> [patient |-> [first_name |-> "Ann"]]] }
VitalsAnswers ==
    { [kind |-> "response", status |-> 401, parsable |-> TRUE,
       body |-> [error |-> "Invalid credentials"]],
      [kind |-> "response", status |-> 200, parsable |-> TRUE,
       body |-> [vitals |-> <<[heart_rate |-> 72]>>]] }
StatsAnswers ==
    { [kind |-> "response", status |-> 401, parsable |-> TRUE,
       body |-> [error |-> "Invalid credentials"]],
      [kind |-> "response", status |-> 200, parsable |-> TRUE,
       body |-> [statistics |-> [total_records |-> 1]]] }

\* an instance of c as the page gets it: the constructor and its setState,
\* the connectedCallback, and the setState calls that led to state `held`
Attached(c, held) ==
    SetState(ConnectedCallback(
                 SetState(Constructor([state |-> [d \in Components |-> EmptyObject],
                                       shadow |-> [d \in Components |-> <<>>],
                                       trace |-> <<>>,
                                       bound |-> [d \in Components |-> NoHandlers]], c),
                          c, InitialState(c)), c),
             c, held)

\* what a handler's step leaves: the components, and the handler suspended
Left(r) ==
    /\ Commit(r.w)
    /\ awaits' = awaits \o r.awaiting

\* a click on #toggle-btn
LoginToggle ==
    /\ life["login"] = "connected"
    /\ "toggle-btn" \in DOMAIN bound["login"]
    /\ Commit(Dispatched(Ran(Now, <<"click", "login", "toggle-btn">>),
                         bound["login"]["toggle-btn"]))
    /\ UNCHANGED <<life, applied, heap, snapshot, awaits>>
    /\ PageIdle

\* the user types into an input of the login form
LoginType(id, value) ==
    /\ life["login"] = "connected"
    /\ id \in Inputs(Now, "login")
    /\ value # ValueOf(Now, "login", id)
    /\ Commit(Typed(Now, "login", id, value))
    /\ UNCHANGED <<life, applied, heap, snapshot, awaits>>
    /\ PageIdle

\* a 'submit' event of #auth-form
LoginFormSubmit ==
    /\ life["login"] = "connected"
    /\ Len(awaits) < MaxSubmits
    /\ Left(HandleSubmit(Now))
    /\ UNCHANGED <<life, applied, heap, snapshot>>
    /\ PageIdle

\* a click on #add-vital-btn, which is drawn once a patient is loaded
VitalsAdd ==
    /\ life["vitals"] = "connected"
    /\ shadow["vitals"][1].patient # <<>>
    /\ Commit(SetState(Now, "vitals",
                       [showForm |-> TRUE, formError |-> NULL, formSuccess |-> NULL]))
    /\ UNCHANGED <<life, applied, heap, snapshot, awaits>>
    /\ PageIdle

\* a click on #cancel-form-btn
VitalsCancel ==
    /\ life["vitals"] = "connected"
    /\ shadow["vitals"][1].showForm
    /\ Commit(SetState(Now, "vitals", [showForm |-> FALSE]))
    /\ UNCHANGED <<life, applied, heap, snapshot, awaits>>
    /\ PageIdle

\* the user types into an input of the vitals form: its 'input' listener,
\* bound when Validators is, clears the error next to it
VitalsType(id, value) ==
    /\ life["vitals"] = "connected"
    /\ id \in Inputs(Now, "vitals")
    /\ value # ValueOf(Now, "vitals", id)
    /\ LET typed == Typed(Now, "vitals", id, value)
       IN  Commit(IF validators THEN ClearFieldError(typed, "vitals", id) ELSE typed)
    /\ UNCHANGED <<life, applied, heap, snapshot, awaits>>
    /\ PageIdle

\* a 'submit' event of #vital-form
VitalsSubmit ==
    /\ life["vitals"] = "connected"
    /\ shadow["vitals"][1].showForm
    /\ Len(awaits) < MaxSubmits
    /\ Left(HandleFormSubmit(Now))
    /\ UNCHANGED <<life, applied, heap, snapshot>>
    /\ PageIdle

\* the call awaits[i] waits for settles with answer o, and handleLogin,
\* handleRegister or handleFormSubmit goes on
FormResume(i, o) ==
    /\ i \in 1..Len(awaits)
    /\ awaits[i].handler \in {"handleLogin", "handleRegister", "handleFormSubmit"}
    /\ LET e == awaits[i]
           completion == Request(o)
           result == completion.value
           w == Ran(Now, <<"resume", e.by, e.handler, o.status>>)
           r == CASE e.handler = "handleLogin" ->
                       IF result.success THEN Returned(w)
                       ELSE Returned(HandleLoginFailed(w, result))
                  [] e.handler = "handleRegister" ->
                       HandleRegisterEnd(w, result, e.kept)
                  [] e.handler = "handleFormSubmit" ->
                       HandleFormSubmitEnd(w, result)
       IN  /\ Settle(e.call, completion)
           /\ IF e.handler = "handleLogin" /\ result.success
              THEN Navigate("/dashboard", pendingHash)
              ELSE UNCHANGED <<fragment, pendingHash>>
           /\ Commit(r.w)
           /\ awaits' = RemoveAt(awaits, i) \o r.awaiting
    /\ UNCHANGED <<life, applied, heap, snapshot>>
    /\ UNCHANGED <<inflight, lastCall, routes, currentRoute, navDisplay, logoutBound,
                   view, loadPending, resolution>>
    /\ ValidatorsIdle
    /\ ListIdle

\* the three calls of the loadPatientData awaits[i] have settled, and it goes on
LoadSettle(i, o1, o2, o3) ==
    /\ i \in 1..Len(awaits)
    /\ awaits[i].handler = "loadPatientData"
    /\ LET e == awaits[i]
           w == Ran(Now, <<"resume", e.by, e.handler, o1.status>>)
       IN  Commit(LoadPatientDataEnd(w, Request(o1).value, Request(o2).value,
                                     Request(o3).value))
    /\ awaits' = RemoveAt(awaits, i)
    /\ UNCHANGED <<life, applied, heap, snapshot>>
    /\ PageIdle

FormNext ==
    \/ LoginToggle
    \/ \E id \in {"username", "email", "password", "confirm-password"} :
           \E value \in LoginTyped(id) : LoginType(id, value)
    \/ LoginFormSubmit
    \/ VitalsAdd
    \/ VitalsCancel
    \/ \E id \in VitalInputs : \E value \in VitalTyped(id) \cup {<<>>} : VitalsType(id, value)
    \/ VitalsSubmit
    \/ \E i \in 1..MaxSubmits, o \in Answers : FormResume(i, o)
    \/ \E i \in 1..MaxSubmits, o1 \in PatientAnswers, o2 \in VitalsAnswers,
          o3 \in StatsAnswers : LoadSettle(i, o1, o2, o3)

\* the page shows the login view without a credential, or the vitals of a
\* patient with one; the import of the validators has succeeded or failed
FormInit ==
    /\ validators \in BOOLEAN
    /\ checked = NoCheck
    /\ \E c \in {"login", "vitals"} :
           /\ storage = IF c = "login" THEN NULL ELSE "abc"
           /\ fragment = IF c = "login" THEN <<"/", "login">>
                         ELSE <<"/", "patients", "?", "patientId=7">>
           /\ currentRoute = IF c = "login" THEN "/login" ELSE "/patients"
           /\ navDisplay = IF c = "login" THEN "none" ELSE "flex"
           /\ logoutBound = IF c = "login" THEN 0 ELSE 1
           /\ view = IF c = "login" THEN "login" ELSE "patients"
           /\ state = [d \in Components |->
                          IF d # c THEN EmptyObject
                          ELSE IF c = "login" THEN InitialState("login")
                          ELSE VitalsLoaded]
           /\ shadow = [d \in Components |-> IF d # c THEN <<>> ELSE <<state[c]>>]
           /\ life = [d \in Components |-> IF d = c THEN "connected" ELSE "none"]
           /\ bound = [d \in Components |->
                          IF d # c THEN NoHandlers ELSE Attached(c, state[c]).bound[c]]
    /\ latest = NoRequest
    /\ token = ConstructorToken
    /\ inflight = <<>>
    /\ lastCall = [op |-> "isAuthenticated", arg |-> UNDEFINED, phase |-> "sync",
                   outcome |-> NoOutcome, ret |-> IsAuthenticated]
    /\ routes = AppRoutes
    /\ pendingHash = 0
    /\ loadPending = FALSE
    /\ resolution = NoResolution
    /\ trace = <<>>
    /\ applied = <<>>
    /\ heap = InitialHeap
    /\ snapshot = NoSnapshot
    /\ awaits = <<>>

FormSpec == FormInit /\ [][FormNext]_vars

----------------------------------------------------------------------------
(* ErrorsSpec: FormSpec, and showVitalFieldErrors called on the open form   *)
(* with a map of errors keyed by field                                      *)

\* maps of errors: those validateVitalSigns builds for a record, and maps of
\* the remote side with the same keys
ErrorMaps ==
    { ValidateVitalSigns(VitalData(<<90>>, <<120>>, <<>>, <<>>, <<>>, <<>>, <<>>)).errors,
      ValidateVitalSigns(VitalData(<<120>>, <<80>>, <<500>>, <<>>, <<>>, <<>>, <<>>)).errors,
      ValidateVitalSigns(VitalData(<<90>>, <<120>>, <<500>>, <<>>, <<>>, <<>>, <<>>)).errors,
      ValidateVitalSigns(VitalData(<<>>, <<>>, <<>>, <<>>, <<>>, <<>>, <<>>)).errors,
      [heart_rate |-> "Invalid heart rate", general |-> "Validation failed"] }

\* showVitalFieldErrors(errors) while the form is open
VitalsShowErrors(errors) ==
    /\ life["vitals"] = "connected"
    /\ shadow["vitals"][1].showForm
    /\ Commit(ShowVitalFieldErrors(Now, errors))
    /\ UNCHANGED <<life, applied, heap, snapshot, awaits>>
    /\ PageIdle

ErrorsNext ==
    \/ FormNext
    \/ \E errors \in ErrorMaps : VitalsShowErrors(errors)

ErrorsSpec == FormInit /\ [][ErrorsNext]_vars

----------------------------------------------------------------------------
(* PatientsSpec: the patients view. The paginated PatientList is mounted,  *)
(* searched and paged while its calls settle in any order; the VitalSigns  *)
(* of a patient is mounted with its patient-id attribute                   *)

\* a value handed to getPatients: a string, or an object
Str(chars) == [type |-> "string", chars |-> chars]
Obj(fields) == [type |-> "object", fields |-> fields]

\* the truthiness of a value: every object, and every string but ''
ToBoolean(v) == v.type = "object" \/ v.chars # <<>>

\* `${value}`: the string itself, and "[object Object]" for a plain object
ObjectObject ==
    <<"[", "o", "b", "j", "e", "c", "t", " ", "O", "b", "j", "e", "c", "t", "]">>
StringOf(v) == IF v.type = "object" THEN ObjectObject ELSE v.chars

\* encodeURIComponent(text): letters, digits and - _ . ! ~ * ' ( ) stay, any
\* other character is written as % and the two hex digits of its code
Unreserved ==
    Lowers \cup Uppers \cup Digits \cup {"-", "_", ".", "!", "~", "*", "'", "(", ")"}
Escaped(ch) ==
    CASE ch = " " -> <<"%", "2", "0">>
      [] ch = "[" -> <<"%", "5", "B">>
      [] ch = "]" -> <<"%", "5", "D">>
      [] ch = "&" -> <<"%", "2", "6">>
      [] ch = "=" -> <<"%", "3", "D">>
      [] ch = "?" -> <<"%", "3", "F">>
      [] ch = "/" -> <<"%", "2", "F">>
      [] ch = "%" -> <<"%", "2", "5">>
RECURSIVE EncodeURIComponent(_)
EncodeURIComponent(text) ==
    IF text = <<>> THEN <<>>
    ELSE (IF Head(text) \in Unreserved THEN <<Head(text)>> ELSE Escaped(Head(text)))
         \o EncodeURIComponent(Tail(text))

\* getPatients(searchTerm): the endpoint it hands to get(), as the path and
\* the parameters of the query
GetPatients(searchTerm) ==
    IF ToBoolean(searchTerm)
    THEN [path |-> "/patients",
          query |-> [search |-> EncodeURIComponent(StringOf(searchTerm))]]
    ELSE [path |-> "/patients", query |-> EmptyObject]

\* loadPatients(page) up to its await: the params it builds go to getPatients
\* as they are, one object
LoadPatients(w, page) ==
    LET held == GetState(w, "list")
        began == LoadPatientsStart(Ran(w, <<"loadPatients", "list", page>>))
        params == ListParams(page, held.pagination, held.searchTerm)
    IN  Suspended(began,
                  Awaiting("list", "loadPatients",
                           [op |-> "getPatients", arg |-> params,
                            endpoint |-> GetPatients(Obj(params))],
                           held.pagination))

\* filterPatients(searchTerm)
FilterPatients(w, searchTerm) ==
    LoadPatients(SetState(w, "list", [searchTerm |-> searchTerm]), 1)

\* the pages a response may describe
FirstOfTwo ==
    [page |-> 1, per_page |-> 10, total |-> 11, pages |-> 2, has_next |-> TRUE,
     has_prev |-> FALSE]
SecondOfTwo ==
    [page |-> 2, per_page |-> 10, total |-> 11, pages |-> 2, has_next |-> FALSE,
     has_prev |-> TRUE]

\* the answers to getPatients: a failure, the one record of a search, and
\* the two pages of all records
ListAnswers ==
    { [kind |-> "response", status |-> 401, parsable |-> TRUE,
       body |-> [error |-> "Invalid credentials"]],
      [kind |-> "response", status |-> 200, parsable |-> TRUE,
       body |-> [patients |-> <<"7">>, pagination |-> OnePage]],
      [kind |-> "response", status |-> 200, parsable |-> TRUE,
       body |-> [patients |-> <<"7", "8">>, pagination |-> FirstOfTwo]],
      [kind |-> "response", status |-> 200, parsable |-> TRUE,
       body |-> [patients |-> <<"9">>, pagination |-> SecondOfTwo]] }

\* the loadPatients calls that wait, in the order they were issued
ListAwaits(aw) == {i \in 1..Len(aw) : aw[i].handler = "loadPatients"}

\* loadPatients has issued a request
ListIssued == latest' = [outstanding |-> TRUE, result |-> <<>>]

\* a step of the list that suspends at its call
ListLeft(r) ==
    /\ Left(r)
    /\ ListIssued
    /\ UNCHANGED <<life, applied, heap, snapshot>>
    /\ UNCHANGED <<token, storage, inflight, lastCall, fragment, routes, currentRoute,
                   navDisplay, logoutBound, view, pendingHash, loadPending, resolution>>
    /\ ValidatorsIdle

\* renderPatientsView without a patientId: a new <patient-list> is connected,
\* and its connectedCallback goes on into loadPatients()
ListShow ==
    /\ AwaitsOf(awaits, "list") = {}
    /\ Len(awaits) < MaxAwaits
    /\ LET r == LoadPatients(Created(Replaced, "list"), 1)
       IN  /\ Commit(r.w)
           /\ awaits' = awaits \o r.awaiting
    /\ ListIssued
    /\ life' = [LifeReplaced EXCEPT !["list"] = "connected"]
    /\ UNCHANGED <<applied, heap, snapshot>>
    /\ UNCHANGED <<token, storage, inflight, lastCall, fragment, routes, currentRoute,
                   navDisplay, logoutBound, view, pendingHash, loadPending, resolution>>
    /\ ValidatorsIdle

\* an 'input' event of #search-input
ListSearch(term) ==
    /\ life["list"] = "connected"
    /\ "search-input" \in DOMAIN bound["list"]
    /\ term # state["list"]["searchTerm"]
    /\ Len(awaits) < MaxAwaits
    /\ ListLeft(FilterPatients(Ran(Now, <<"input", "list", term>>), term))

\* a click on #prev-btn, which is drawn disabled on the first page
ListPrev ==
    /\ life["list"] = "connected"
    /\ "prev-btn" \in DOMAIN bound["list"]
    /\ state["list"]["pagination"].has_prev
    /\ Len(awaits) < MaxAwaits
    /\ ListLeft(LoadPatients(Ran(Now, <<"click", "list", "prev-btn">>),
                             state["list"]["pagination"].page - 1))

\* a click on #next-btn, which is drawn disabled on the last page
ListNext ==
    /\ life["list"] = "connected"
    /\ "next-btn" \in DOMAIN bound["list"]
    /\ state["list"]["pagination"].has_next
    /\ Len(awaits) < MaxAwaits
    /\ ListLeft(LoadPatients(Ran(Now, <<"click", "list", "next-btn">>),
                             state["list"]["pagination"].page + 1))

\* the getPatients of the loadPatients awaits[i] settles with answer o, and
\* loadPatients goes on
ListSettle(i, o) ==
    /\ i \in ListAwaits(awaits)
    /\ LET e == awaits[i]
           completion == Request(o)
           w == Ran(Now, <<"resume", e.by, e.handler, o.status>>)
       IN  /\ Settle(e.call, completion)
           /\ Commit(LoadPatientsEnd(w, completion.value, e.kept))
           /\ latest' = IF latest.outstanding /\ \A j \in ListAwaits(awaits) : j <= i
                        THEN [outstanding |-> FALSE, result |-> <<completion.value>>]
                        ELSE latest
    /\ awaits' = RemoveAt(awaits, i)
    /\ UNCHANGED <<life, applied, heap, snapshot>>
    /\ UNCHANGED <<inflight, lastCall, fragment, routes, currentRoute, navDisplay,
                   logoutBound, view, pendingHash, loadPending, resolution>>
    /\ ValidatorsIdle

\* parseInt(text): the number the leading digits of the text write, and NaN,
\* written 0 and falsy as 0 is, for a text that starts with none
DigitOf(ch) ==
    CASE ch = "0" -> 0 [] ch = "1" -> 1 [] ch = "2" -> 2 [] ch = "3" -> 3
      [] ch = "4" -> 4 [] ch = "5" -> 5 [] ch = "6" -> 6 [] ch = "7" -> 7
      [] ch = "8" -> 8 [] ch = "9" -> 9
RECURSIVE ParseDigits(_, _)
ParseDigits(text, n) ==
    IF text = <<>> \/ Head(text) \notin Digits THEN n
    ELSE ParseDigits(Tail(text), 10 * n + DigitOf(Head(text)))
ParseInt(text) == ParseDigits(text, 0)

\* attributeChangedCallback(name, oldValue, newValue) of the VitalSigns;
\* loadPatientData() is called and not awaited
AttributeChangedCallback(r, name, newValue) ==
    IF name = "patient-id" /\ newValue # <<>>
    THEN LET load == LoadPatientData(
                         SetState(Ran(r.w, <<"attributeChangedCallback", "vitals", name>>),
                                  "vitals", [patientId |-> ParseInt(newValue)]))
         IN  [w |-> load.w, awaiting |-> r.awaiting \o load.awaiting]
    ELSE r

\* connectedCallback() of the VitalSigns up to its await, the element
\* carrying `attribute` as its patient-id
VitalsConnectedCallback(r, attribute) ==
    LET base == ConnectedCallback(Ran(r.w, <<"connectedCallback", "vitals">>), "vitals")
    IN  IF attribute # <<>>
        THEN LET load == LoadPatientData(
                             SetState(base, "vitals",
                                      [patientId |-> ParseInt(attribute)]))
             IN  [w |-> load.w, awaiting |-> r.awaiting \o load.awaiting]
        ELSE [w |-> base, awaiting |-> r.awaiting]

\* the patient-id attributes renderPatientsView may write
PatientIds == {<<"7">>, <<"1", "2">>}

\* `<vital-signs patient-id="...">` is written into the document: the element
\* is upgraded, its constructor running first, then attributeChangedCallback
\* for the observed attribute it carries, then connectedCallback
Upgraded(w, attribute) ==
    VitalsConnectedCallback(
        AttributeChangedCallback(
            Returned(SetState(Constructor(w, "vitals"), "vitals", InitialState("vitals"))),
            "patient-id", attribute),
        attribute)

\* renderPatientsView with a patientId in the location
VitalsShow(attribute) ==
    /\ AwaitsOf(awaits, "vitals") = {}
    /\ LET r == Upgraded(Ran(Replaced, <<"renderPatientsView", "vitals", attribute>>),
                         attribute)
       IN  /\ Len(awaits) + Len(r.awaiting) <= MaxAwaits
           /\ Commit(r.w)
           /\ awaits' = awaits \o r.awaiting
    /\ life' = [LifeReplaced EXCEPT !["vitals"] = "connected"]
    /\ UNCHANGED <<applied, heap, snapshot>>
    /\ PageIdle

PatientsNext ==
    \/ ListShow
    \/ \E term \in SearchTerms : ListSearch(term)
    \/ ListPrev
    \/ ListNext
    \/ \E i \in 1..MaxAwaits, o \in ListAnswers : ListSettle(i, o)
    \/ \E attribute \in PatientIds : VitalsShow(attribute)
    \/ \E i \in 1..MaxAwaits, o1 \in PatientAnswers, o2 \in VitalsAnswers,
          o3 \in StatsAnswers : LoadSettle(i, o1, o2, o3)

\* the page holds a credential and rests at the patients location, the view
\* not yet written
PatientsInit ==
    /\ validators = TRUE
    /\ checked = NoCheck
    /\ storage = "abc"
    /\ token = ConstructorToken
    /\ fragment = <<"/", "patients">>
    /\ currentRoute = "/patients"
    /\ navDisplay = "flex"
    /\ logoutBound = 1
    /\ view = "patients"
    /\ state = [c \in Components |-> EmptyObject]
    /\ shadow = [c \in Components |-> <<>>]
    /\ life = [c \in Components |-> "none"]
    /\ bound = [c \in Components |-> NoHandlers]
    /\ latest = NoRequest
    /\ inflight = <<>>
    /\ lastCall = [op |-> "isAuthenticated", arg |-> UNDEFINED, phase |-> "sync",
                   outcome |-> NoOutcome, ret |-> IsAuthenticated]
    /\ routes = AppRoutes
    /\ pendingHash = 0
    /\ loadPending = FALSE
    /\ resolution = NoResolution
    /\ trace = <<>>
    /\ applied = <<>>
    /\ heap = InitialHeap
    /\ snapshot = NoSnapshot
    /\ awaits = <<>>

PatientsSpec == PatientsInit /\ [][PatientsNext]_vars

----------------------------------------------------------------------------
(* FilterSpec: the PatientList that holds all patients and filters them on *)
(* the client, as the patients view mounts it, reloads it after a patient  *)
(* was created, and the user types into its search input                   *)

\* what the constructor of this PatientList passes to setState
ClientInitialState ==
    [patients |-> <<>>, filteredPatients |-> <<>>, loading |-> TRUE, error |-> NULL,
     searchTerm |-> <<>>, selectedPatient |-> NULL]

\* text.toLowerCase()
UpperCase ==
    <<"A", "B", "C", "D", "E", "F", "G", "H", "I", "J", "K", "L", "M",
      "N", "O", "P", "Q", "R", "S", "T", "U", "V", "W", "X", "Y", "Z">>
LowerCase ==
    <<"a", "b", "c", "d", "e", "f", "g", "h", "i", "j", "k", "l", "m",
      "n", "o", "p", "q", "r", "s", "t", "u", "v", "w", "x", "y", "z">>
ToLower(ch) ==
    IF ch \in Uppers THEN LowerCase[CHOOSE i \in 1..Len(UpperCase) : UpperCase[i] = ch]
    ELSE ch
ToLowerCase(text) == [i \in 1..Len(text) |-> ToLower(text[i])]

\* text.includes(term)
Includes(text, term) ==
    \E i \in 1..(Len(text) - Len(term) + 1) :
        SubSeq(text, i, i + Len(term) - 1) = term

\* patients.filter(predicate)
RECURSIVE Filter(_, _)
Filter(patients, term) ==
    IF patients = <<>> THEN <<>>
    ELSE LET patient == Head(patients)
             keep == \/ Includes(ToLowerCase(patient.first_name), term)
                     \/ Includes(ToLowerCase(patient.last_name), term)
                     \/ /\ "email" \in DOMAIN patient
                        /\ Includes(ToLowerCase(patient.email), term)
         IN  (IF keep THEN <<patient>> ELSE <<>>) \o Filter(Tail(patients), term)

\* filterPatients(searchTerm) of this PatientList
ClientFilterPatients(w, searchTerm) ==
    LET patients == GetState(w, "list").patients
    IN  IF searchTerm = <<>>
        THEN SetState(w, "list", [filteredPatients |-> patients, searchTerm |-> <<>>])
        ELSE SetState(w, "list",
                      [filteredPatients |-> Filter(patients, ToLowerCase(searchTerm)),
                       searchTerm |-> searchTerm])

\* loadPatients() of this PatientList up to its await
ClientLoadPatients(w) ==
    Suspended(SetState(Ran(w, <<"loadPatients", "list">>), "list",
                       [loading |-> TRUE, error |-> NULL]),
              Awaiting("list", "loadPatients", [op |-> "getPatients", arg |-> ""],
                       NULL))

\* loadPatients() of this PatientList from its await on
ClientLoadPatientsEnd(w, result) ==
    IF result.success
    THEN SetState(w, "list",
                  [patients |-> PatientsOr(result.data),
                   filteredPatients |-> PatientsOr(result.data),
                   loading |-> FALSE])
    ELSE SetState(w, "list", [loading |-> FALSE, error |-> result.error])

\* the records the remote side holds: one without an email
Ann ==
    [first_name |-> <<"A", "n", "n">>, last_name |-> <<"L", "e", "e">>,
     email |-> <<"a", "l", "@", "x", ".", "i", "o">>]
Bob == [first_name |-> <<"B", "o", "b">>, last_name |-> <<"R", "a", "y">>]

\* the answers to getPatients(): a failure, no patients key, one record, two
RecordAnswers ==
    { [kind |-> "response", status |-> 401, parsable |-> TRUE,
       body |-> [error |-> "Invalid credentials"]],
      [kind |-> "response", status |-> 200, parsable |-> TRUE, body |-> EmptyObject],
      [kind |-> "response", status |-> 200, parsable |-> TRUE,
       body |-> [patients |-> <<Ann>>]],
      [kind |-> "response", status |-> 200, parsable |-> TRUE,
       body |-> [patients |-> <<Ann, Bob>>]] }

\* what the user may leave in #search-input
TypedTerms == {<<>>, <<"a", "n">>, <<"R", "A">>, <<"x", ".">>, <<"z">>}

\* renderPatientsView without a patientId: a new <patient-list> is connected,
\* and its connectedCallback goes on into loadPatients()
ClientShow ==
    /\ AwaitsOf(awaits, "list") = {}
    /\ Len(awaits) < MaxAwaits
    /\ Left(ClientLoadPatients(
                ConnectedCallback(SetState(Constructor(Replaced, "list"), "list",
                                           ClientInitialState), "list")))
    /\ life' = [LifeReplaced EXCEPT !["list"] = "connected"]
    /\ UNCHANGED <<applied, heap, snapshot>>
    /\ PageIdle

\* an 'input' event of #search-input
ClientSearch(term) ==
    /\ life["list"] = "connected"
    /\ "search-input" \in DOMAIN bound["list"]
    /\ term # state["list"]["searchTerm"]
    /\ Commit(ClientFilterPatients(Ran(Now, <<"input", "list", term>>), term))
    /\ UNCHANGED <<life, applied, heap, snapshot, awaits>>
    /\ PageIdle

\* a 'patient-created' event of the form beside the list: the handler of
\* renderPatientsView calls patientList.loadPatients()
PatientCreated ==
    /\ life["list"] = "connected"
    /\ Len(awaits) < MaxAwaits
    /\ Left(ClientLoadPatients(Ran(Now, <<"patient-created", "list">>)))
    /\ UNCHANGED <<life, applied, heap, snapshot>>
    /\ PageIdle

\* the getPatients of the loadPatients awaits[i] settles with answer o
ClientSettle(i, o) ==
    /\ i \in 1..Len(awaits)
    /\ awaits[i].handler = "loadPatients"
    /\ LET e == awaits[i]
           completion == Request(o)
           w == Ran(Now, <<"resume", e.by, e.handler, o.status>>)
       IN  /\ Settle(e.call, completion)
           /\ Commit(ClientLoadPatientsEnd(w, completion.value))
    /\ awaits' = RemoveAt(awaits, i)
    /\ UNCHANGED <<life, applied, heap, snapshot>>
    /\ UNCHANGED <<inflight, lastCall, fragment, routes, currentRoute, navDisplay,
                   logoutBound, view, pendingHash, loadPending, resolution>>
    /\ ValidatorsIdle
    /\ ListIdle

FilterNext ==
    \/ ClientShow
    \/ \E term \in TypedTerms : ClientSearch(term)
    \/ PatientCreated
    \/ \E i \in 1..MaxAwaits, o \in RecordAnswers : ClientSettle(i, o)

FilterSpec == PatientsInit /\ [][FilterNext]_vars

----------------------------------------------------------------------------
(* Properties of the Router, checked under Spec *)

\* the resolution that ran last invoked a route callback
Mounted == resolution.ran /\ resolution.handler # UNDEFINED

\* the route-table key of the path the last resolution parsed
ResolvedKey == "/" \o (IF Truthy(resolution.path) THEN resolution.path ELSE "")

\* C1: after a resolution that mounted a view, an authenticated-only view
\* (dashboard, patients, not-found) is mounted only with a non-empty credential
\* held, and the login view only with none held; the path 'register' is
\* tolerated as the exception.
C1_ViewAgreesWithCredential ==
    (Mounted /\ resolution.path # "register") =>
        /\ view \in {"dashboard", "patients", "404"} => Truthy(token)
        /\ view = "login" => ~Truthy(token)

\* C2: a resolution of the login path or of the root path (no path segment)
\* while a credential is held redirects to '/dashboard' and invokes no callback.
C2_PublicPathRedirects ==
    (resolution.ran /\ resolution.authed /\ resolution.path \in {UNDEFINED, "login"}) =>
        /\ resolution.redirect = "/dashboard"
        /\ resolution.handler = UNDEFINED

\* C3 as stated: a resolution of a path that is not in the route table, with no
\* credential held, redirects to '/login' and does not invoke the '/404'
\* callback.
C3_UnknownPathRedirects ==
    (resolution.ran /\ ~resolution.authed /\ ResolvedKey \notin DOMAIN routes) =>
        /\ resolution.redirect = "/login"
        /\ resolution.handler # routes["/404"]

\* C3 amended: a resolution of a path that is not in the route table and is
\* not the public path 'register', with no credential held, redirects to
\* '/login' (the location becomes '#/login') and invokes no callback.
C3_UnknownProtectedPathRedirects ==
    (/\ resolution.ran
     /\ ~resolution.authed
     /\ ResolvedKey \notin DOMAIN routes
     /\ resolution.path # "register") =>
        /\ resolution.redirect = "/login"
        /\ resolution.handler = UNDEFINED
        /\ fragment = <<"/", "login">>

C3_Witness ==
    /\ resolution.ran
    /\ ~resolution.authed
    /\ resolution.path = "foo"
    /\ resolution.redirect = "/login"
    /\ pendingHash > 0

\* C4: a resolution of a path that is not in the route table, with a
\* credential held, invokes the '/404' callback (the not-found view is
\* mounted) and does not redirect.
C4_UnknownPathNotFound ==
    (resolution.ran /\ resolution.authed /\ ResolvedKey \notin DOMAIN routes) =>
        /\ resolution.handler = routes["/404"]
        /\ resolution.redirect = NULL
        /\ view = "404"
        /\ currentRoute = ResolvedKey

C4_Witness ==
    /\ resolution.ran
    /\ resolution.authed
    /\ resolution.path = "foo"
    /\ resolution.params = <<"bar">>
    /\ view = "404"

----------------------------------------------------------------------------
(* Properties of the ApiService, checked under GatewaySpec *)

\* C5: isAuthenticated() is true right after setToken(t) with a non-empty t
\* and false right after setToken(null), clearAuth() or logout().
C5_AuthenticatedFollowsLastCall ==
    /\ (lastCall.op = "setToken" /\ Truthy(lastCall.arg)) => IsAuthenticated
    /\ (lastCall.op = "setToken" /\ lastCall.arg = NULL) => ~IsAuthenticated
    /\ lastCall.op \in {"clearAuth", "logout"} => ~IsAuthenticated

C5_Witness ==
    /\ lastCall.op = "logout"
    /\ ~IsAuthenticated
    /\ Len(inflight) > 0
    /\ "Authorization" \in DOMAIN inflight[1].config.headers

\* C6 as stated: the field and the storage are both absent or both present and
\* equal, and isAuthenticated() is true iff the field is non-null.
C6_MemoryEqualsStorage ==
    /\ token = storage
    /\ IsAuthenticated <=> token # NULL

\* C6 amended: either a non-empty credential is held and the stored one equals
\* it, or the field is null or the empty string and nothing is stored;
\* isAuthenticated() is true iff something is stored.
C6_MemoryAgreesWithStorage ==
    /\ \/ Truthy(token) /\ storage = token
       \/ token \in {NULL, ""} /\ storage = NULL
    /\ IsAuthenticated <=> storage # NULL

C6_Witness ==
    /\ lastCall.op = "login"
    /\ lastCall.phase = "settled"
    /\ token = "xyz"
    /\ storage = "xyz"

\* C7 as stated: a fresh instance constructed right after setToken(t) has
\* getToken() = t, for every t.
C7_RoundTrip ==
    (lastCall.op = "construct" /\ lastCall.arg # <<>>) => GetToken = lastCall.arg[1]

\* C7 amended: a fresh instance constructed right after setToken(t) has
\* getToken() = t, for every non-empty token t and for t = null; after
\* setToken('') it has getToken() = null.
C7_RoundTripNonEmpty ==
    (lastCall.op = "construct" /\ lastCall.arg # <<>>) =>
        GetToken = (IF lastCall.arg[1] = "" THEN NULL ELSE lastCall.arg[1])

C7_Witness ==
    /\ lastCall.op = "construct"
    /\ lastCall.arg = <<"abc">>
    /\ GetToken = "abc"

\* the shapes of a request result
IsSuccessResult(v) == DOMAIN v = {"success", "data"} /\ v["success"] = TRUE
IsFailureResult(v) == DOMAIN v = {"success", "error"} /\ v["success"] = FALSE

C9_FieldErrorsReachCaller ==
    (/\ lastCall.phase = "settled"
     /\ lastCall.outcome.kind = "response"
     /\ lastCall.outcome.parsable
     /\ ~Ok(lastCall.outcome)
     /\ "errors" \in DOMAIN lastCall.outcome.body) =>
        /\ lastCall.ret.type = "return"
        /\ "data" \in DOMAIN lastCall.ret.value
        /\ "errors" \in DOMAIN lastCall.ret.value["data"]
        /\ lastCall.ret.value["data"]["errors"] = lastCall.outcome.body["errors"]

\* C10: the request a call has just issued carries Content-Type:
\* application/json, and carries Authorization iff a non-empty credential is
\* held at that moment, as 'Bearer ' and that credential.
C10_HeadersFollowCredential ==
    lastCall.phase = "issued" =>
        LET headers == inflight[Len(inflight)].config.headers
        IN  /\ "Content-Type" \in DOMAIN headers
            /\ headers["Content-Type"] = "application/json"
            /\ "Authorization" \in DOMAIN headers <=> token \notin {NULL, ""}
            /\ "Authorization" \in DOMAIN headers =>
                    headers["Authorization"] = "Bearer " \o token

C10_Witness ==
    /\ lastCall.phase = "issued"
    /\ Len(inflight) = 2
    /\ inflight[1].config.headers = [h \in {"Content-Type"} |-> "application/json"]
    /\ "Authorization" \in DOMAIN inflight[2].config.headers
    /\ inflight[2].config.headers["Authorization"] = "Bearer abc"

\* the answer a settled call had: a success status and a body with a token
AnswerCarriesToken(o) ==
    /\ o.kind = "response"
    /\ o.parsable
    /\ Ok(o)
    /\ "token" \in DOMAIN o.body
    /\ o.body["token"] \notin {NULL, ""}

\* C11: a step changes the credential only as follows. A login that settles
\* stores the returned token iff the answer is a success and carries a token;
\* logout(), clearAuth() and setToken(null) clear it; every other operation
\* (issuing a call, the settling of any other call, of a failed login or of a
\* login without a token, getToken, isAuthenticated) leaves it unchanged.
C11_CredentialFrame ==
    [][LET c == lastCall'
       IN  /\ (c.phase = "settled" /\ c.op = "login" /\ AnswerCarriesToken(c.outcome)) =>
                   (token' = c.outcome.body["token"] /\ storage' = c.outcome.body["token"])
           /\ (c.phase = "settled" /\ ~(c.op = "login" /\ AnswerCarriesToken(c.outcome))) =>
                   UNCHANGED <<token, storage>>
           /\ c.phase = "issued" => UNCHANGED <<token, storage>>
           /\ c.op \in {"getToken", "isAuthenticated", "new"} => UNCHANGED <<token, storage>>
           /\ (\/ c.op \in {"logout", "clearAuth"}
               \/ c.op = "setToken" /\ c.arg = NULL) =>
                   (token' = NULL /\ storage' = NULL)
      ]_vars

\* a register call has settled with a success that carries a token, and the
\* credential held before is still the one held
C11_Witness ==
    /\ lastCall.phase = "settled"
    /\ lastCall.op = "register"
    /\ AnswerCarriesToken(lastCall.outcome)
    /\ token = "abc"
    /\ storage = "abc"

----------------------------------------------------------------------------
(* Properties of BaseComponent, checked under BaseSpec (C15: ComponentSpec) *)

\* the shallow merge of the empty state and the objects of `ps`, in order
RECURSIVE MergeAll(_)
MergeAll(ps) ==
    IF ps = <<>> THEN EmptyObject
    ELSE Spread(MergeAll(SubSeq(ps, 1, Len(ps) - 1)), ps[Len(ps)])

\* C14: after setState(p1) ... setState(pn) on an instance, its state is the
\* shallow merge of the initial (empty) state and p1..pn in call order, later
\* keys winning, and the last render drew exactly that merged state.
C14_StateIsMergeOfCalls ==
    life["base"] # "none" =>
        /\ state["base"] = MergeAll(applied)
        /\ applied # <<>> => shadow["base"] = <<MergeAll(applied)>>

\* three calls whose keys overlap: the later values are the ones held and drawn
C14_Witness ==
    /\ applied = << [loading |-> TRUE, error |-> NULL],
                    [loading |-> FALSE, pagination |-> "p2"],
                    [pagination |-> "p1"] >>
    /\ state["base"] = [loading |-> FALSE, error |-> NULL, pagination |-> "p1"]
    /\ shadow["base"] = <<state["base"]>>

\* the entries of trace `tr` that are calls of `fn` on component c
CallsOf(tr, fn, c) == {i \in 1..Len(tr) : tr[i][1] = fn /\ tr[i][2] = c}

\* the state of c just before entry i of `tr`, s0 being the state before
\* `tr`: what the last setState before i merged, or the empty state of an
\* instance constructed since
StateBefore(tr, i, c, s0) ==
    LET earlier == {j \in CallsOf(tr, "setState", c) \cup CallsOf(tr, "constructor", c) :
                        j < i}
    IN  IF earlier = {} THEN s0
        ELSE LET j == CHOOSE k \in earlier : \A m \in earlier : m <= k
             IN  IF tr[j][1] = "constructor" THEN EmptyObject ELSE tr[j + 1][4]

\* C15: in every step, each setState call on a component is followed at once,
\* in this order and once each, by onStateChange(old, new) with the state
\* before the call and the merged state, by a render of the merged state and
\* by attachEventListeners; no hook runs without its call, and the state the
\* step leaves is the one the last call merged.
C15_SetStateRunsEachStepOnce ==
    [][\A c \in Components :
         LET tr == trace'
             sets == CallsOf(tr, "setState", c)
         IN  /\ \A i \in sets :
                   LET old == StateBefore(tr, i, c, state[c])
                       new == Spread(old, tr[i][3])
                   IN  /\ i + 3 <= Len(tr)
                       /\ tr[i + 1] = <<"onStateChange", c, old, new>>
                       /\ tr[i + 2] = <<"render", c, new>>
                       /\ tr[i + 3] = <<"attachEventListeners", c>>
             /\ Cardinality(CallsOf(tr, "onStateChange", c)) = Cardinality(sets)
             /\ sets # {} => state'[c] = StateBefore(tr, Len(tr) + 1, c, state[c])
      ]_vars

\* the dashboard view has just been rendered: the constructor's setState and
\* the one of loadDashboardData, which changes nothing, each ran the hook,
\* a render and the rebinding, next to the render of connectedCallback
C15_Witness ==
    /\ Len(trace) = 11
    /\ trace[1] = <<"constructor", "dashboard">>
    /\ Cardinality(CallsOf(trace, "setState", "dashboard")) = 2
    /\ Cardinality(CallsOf(trace, "render", "dashboard")) = 3
    /\ Cardinality(CallsOf(trace, "attachEventListeners", "dashboard")) = 3
    /\ trace[8] = <<"setState", "dashboard", [loading |-> TRUE, error |-> NULL]>>
    /\ trace[9] = <<"onStateChange", "dashboard", state["dashboard"], state["dashboard"]>>

\* C16: once an instance is disconnected, a later setState on it changes
\* neither its state nor what is drawn, and runs neither render nor
\* attachEventListeners.
C16_SetStateAfterDetachIsNoOp ==
    [][(life["base"] = "disconnected" /\ CallsOf(trace', "setState", "base") # {}) =>
           /\ state'["base"] = state["base"]
           /\ shadow'["base"] = shadow["base"]
           /\ CallsOf(trace', "render", "base") = {}
           /\ CallsOf(trace', "attachEventListeners", "base") = {}
      ]_vars

\* C18: assigning to the object getState() returned, to one of its keys or
\* inside a nested value such as the pagination object, leaves the
\* component's state, as the component reads it, unchanged.
C18_GetStateIsDefensiveCopy ==
    [][(trace' # <<>> /\ trace'[1][1] = "mutate") =>
           Deref(heap', state'[trace'[1][2]]) = Deref(heap, state[trace'[1][2]])
      ]_vars

----------------------------------------------------------------------------
(* Properties of the components and their calls, checked under ComponentSpec *)

\* the step that ran last (s = trace) or runs now (s = trace') is the
\* continuation of a handler of component c after its call has settled
Resumed(s, c) == s # <<>> /\ s[1][1] = "resume" /\ s[1][2] = c

\* ... and the call had failed
ResumedFailed(s, c) == Resumed(s, c) /\ s[1][4] \notin 200..299

\* C12: the step in which a component's call fails, an auth failure (401) on
\* a protected endpoint included, changes neither the credential (in memory
\* and stored) nor the location, and queues no navigation; the component is
\* told the error.
C12_FailureKeepsCredentialAndLocation ==
    [][\A c \in Components :
         ResumedFailed(trace', c) =>
             /\ UNCHANGED <<token, storage, fragment, pendingHash>>
             /\ state'[c]["error"] # NULL
      ]_vars

\* the dashboard's getPatients was answered 401 while a credential is held
C12_Witness ==
    /\ ResumedFailed(trace, "dashboard")
    /\ trace[1][4] = 401
    /\ life["dashboard"] = "connected"
    /\ state["dashboard"]["error"] = "Invalid credentials"
    /\ token = "abc"
    /\ storage = "abc"
    /\ fragment = <<"/", "login">>

\* C17: when a call settles whose component has been taken out of the
\* document meanwhile, the component's state is the same before and after.
C17_ResultNotAppliedAfterUnmount ==
    [][\A c \in Components :
         (Resumed(trace', c) /\ life[c] = "disconnected") => state'[c] = state[c]
      ]_vars

----------------------------------------------------------------------------
(* Login to dashboard, checked under FairSpec *)

\* the step that ran last is a login that settled with a success and a token
LoginSucceededWithToken ==
    /\ lastCall.op = "login"
    /\ lastCall.phase = "settled"
    /\ AnswerCarriesToken(lastCall.outcome)

\* the location is '/dashboard' and what #main-content holds is what the
\* dashboard callback rendered
DashboardShown ==
    /\ fragment = <<"/", "dashboard">>
    /\ view = "dashboard"

\* C13: when a login submitted from the login view has settled with a
\* success carrying a token, isAuthenticated() is true and the location is
\* '/dashboard'; and from there the dashboard callback is eventually invoked
\* at that location, replacing the login view, unless the user has moved to
\* another location or logged out first.
C13_LoginLeadsToDashboard ==
    /\ [](LoginSucceededWithToken =>
              (IsAuthenticated /\ fragment = <<"/", "dashboard">>))
    /\ LoginSucceededWithToken ~>
           (DashboardShown \/ fragment # <<"/", "dashboard">> \/ ~IsAuthenticated)

\* the dashboard callback ran right after a login that stored its token:
\* the resolution found the credential at '/dashboard'
C13_Witness ==
    /\ DashboardShown
    /\ resolution.ran
    /\ resolution.handler = "dashboard"
    /\ token = "xyz"
    /\ storage = "xyz"
    /\ resolution.authed
    /\ lastCall.op = "isAuthenticated"
    /\ lastCall.ret = TRUE

----------------------------------------------------------------------------
(* One fetch per call, checked under GatewaySpec *)

\* C29: each call hands exactly one request to fetch, when it is issued, and
\* the settling of a call - with a success, an error status, an unreadable
\* body or a network failure - takes that one request away and hands fetch
\* no other: nothing is retried. No synchronous method issues a request.
C29_OneRequestPerCall ==
    [][LET c == lastCall'
           call == [op |-> c.op, arg |-> c.arg]
       IN  /\ c.phase = "issued" => inflight' = Append(inflight, Issued(call))
           /\ c.phase = "settled" =>
                  \E i \in 1..Len(inflight) :
                      /\ inflight[i].call = call
                      /\ inflight' = RemoveAt(inflight, i)
           /\ c.phase = "sync" => inflight' \in {inflight, <<>>}
      ]_vars

\* a call has failed on the network and has returned its failure, and fetch
\* holds no request
C29_Witness ==
    /\ lastCall.phase = "settled"
    /\ lastCall.outcome.kind = "reject"
    /\ ~lastCall.ret.value.success
    /\ inflight = <<>>

----------------------------------------------------------------------------
(* Properties of the Router's methods, checked under RouterSpec *)

\* a handleRoute ran in the step and went past its two guards
Passed(r) == r.ran /\ r.redirect = NULL

\* a handleRoute ran in the step and invoked a route callback
Invoked(r) == Passed(r) /\ r.handler # UNDEFINED

\* C25: register(p, h) is an insert in which the last registration wins.
\* The step of register(p, h) leaves p bound to h whatever p was bound to,
\* adds no other path and changes the callback of no other path; on any table
\* the router holds, registering (p, f) twice gives the table of registering
\* it once, and registering (p, f) then (p, g) binds p to g; no other method
\* changes the table; and a resolution whose path is registered invokes the
\* callback the table binds it to, that is the one registered last.
C25_RegisterLastWins ==
    [][/\ \A p \in RegisterPaths, f \in Callbacks, g \in Callbacks :
              /\ Register(Register(routes, p, f), p, f) = Register(routes, p, f)
              /\ Register(Register(routes, p, f), p, g)[p] = g
              /\ \A q \in DOMAIN routes \ {p} :
                     Register(Register(routes, p, f), p, g)[q] = routes[q]
       /\ lastCall'.op = "register" =>
              LET p == lastCall'.arg[1]
                  h == lastCall'.arg[2]
              IN  /\ DOMAIN routes' = DOMAIN routes \cup {p}
                  /\ routes'[p] = h
                  /\ \A q \in DOMAIN routes \ {p} : routes'[q] = routes[q]
       /\ lastCall'.op # "register" => routes' = routes
       /\ (Passed(resolution') /\ resolution'.routePath \in DOMAIN routes) =>
              /\ resolution'.handler = routes[resolution'.routePath]
              /\ view' = routes[resolution'.routePath]
      ]_vars

\* '/dashboard' was resolved to the callback "dashboard" (no fallback is
\* registered, so the view came from the path's own entry), and the caller
\* has just registered "login" for the same path, which is what it is bound to
C25_Witness ==
    /\ "/404" \notin DOMAIN routes
    /\ currentRoute = "/dashboard"
    /\ view = "dashboard"
    /\ lastCall.op = "register"
    /\ lastCall.arg = <<"/dashboard", "login">>
    /\ routes["/dashboard"] = "login"

\* C26: navigate(path) only changes the location. Its step sets the fragment
\* (queuing one hashchange event iff the fragment changed), invokes no
\* callback, and leaves the table, currentRoute, the credential and the
\* navigation display as they were; a view is rendered and currentRoute is
\* set only in a step in which handleRoute runs for a dispatched event.
C26_NavigateOnlyMoves ==
    [][/\ lastCall'.op = "navigate" =>
              /\ fragment' = Fragment(lastCall'.arg)
              /\ pendingHash' = pendingHash + (IF fragment' # fragment THEN 1 ELSE 0)
              /\ ~resolution'.ran
              /\ UNCHANGED <<routes, currentRoute, token, storage, navDisplay,
                             logoutBound, view, loadPending>>
       /\ (view' # view \/ currentRoute' # currentRoute) =>
              /\ Invoked(resolution')
              /\ (loadPending /\ ~loadPending') \/ pendingHash > 0
      ]_vars

\* navigate('/dashboard') has just run at a login view: the location is the
\* dashboard's, its event is queued, and the login view is still shown
C26_Witness ==
    /\ lastCall.op = "navigate"
    /\ lastCall.arg = "/dashboard"
    /\ fragment = <<"/", "dashboard">>
    /\ pendingHash = 1
    /\ view = "login"
    /\ currentRoute = "/login"
    /\ "/dashboard" \in DOMAIN routes

\* C27: a resolution that passes the guards while neither its path nor
\* '/404' is registered invokes no callback: it runs to its end, the view and
\* currentRoute stay as they were, and the location is not changed.
C27_NoHandlerNoEffect ==
    [][(/\ Passed(resolution')
        /\ resolution'.routePath \notin DOMAIN routes
        /\ "/404" \notin DOMAIN routes) =>
              /\ resolution'.handler = UNDEFINED
              /\ UNCHANGED <<currentRoute, view, fragment, routes>>
      ]_vars

\* '/register' was resolved with nothing registered for it and no fallback,
\* after '/login' had been resolved to its callback
C27_Witness ==
    /\ Passed(resolution)
    /\ resolution.routePath = "/register"
    /\ resolution.handler = UNDEFINED
    /\ DOMAIN routes = {"/login"}
    /\ currentRoute = "/login"
    /\ view = "login"

\* C28: in a step in which a resolution invokes a route callback, the
\* navigation is displayed iff a credential is held; a resolution that ends
\* in a redirect leaves the navigation display and the logout binding alone.
C28_NavigationAtInvocation ==
    [][/\ Invoked(resolution') =>
              /\ navDisplay' \in {"flex", "none"}
              /\ navDisplay' = "flex" <=> Truthy(token')
       /\ (resolution'.ran /\ resolution'.redirect # NULL) =>
              UNCHANGED <<navDisplay, logoutBound, view, currentRoute>>
      ]_vars

\* the login callback was invoked without a credential, after the navigation
\* had been displayed for a credential held earlier
C28_Witness ==
    /\ Invoked(resolution)
    /\ resolution.routePath = "/login"
    /\ ~Truthy(token)
    /\ navDisplay = "none"
    /\ logoutBound = 1

\* the guards of handleRoute send the location elsewhere
Redirects ==
    \/ ~IsPublicRoute /\ ~IsAuthenticated
    \/ IsPublicRoute /\ IsAuthenticated /\ Path # "register"

\* C30: redirects end. The location a redirecting resolution sets is one the
\* guards let through under the credential the resolution saw, and with
\* '/404' registered a callback is found for it; a resolution that directly
\* follows a redirecting one (nothing has changed the credential or the
\* location in between) does not redirect, and so invokes a callback when
\* '/404' is registered.
C30_RedirectsEnd ==
    [][/\ (resolution'.ran /\ resolution'.redirect # NULL) =>
              /\ ~Redirects'
              /\ "/404" \in DOMAIN routes' => Handler' # UNDEFINED
       /\ (resolution.ran /\ resolution.redirect # NULL /\ resolution'.ran) =>
              /\ resolution'.redirect = NULL
              /\ "/404" \in DOMAIN routes => Invoked(resolution')
      ]_vars

\* a resolution without a credential has redirected a protected location to
\* '/login'; its event is queued and '/404' is registered
C30_Witness ==
    /\ resolution.ran
    /\ resolution.redirect = "/login"
    /\ resolution.path = "foo"
    /\ fragment = <<"/", "login">>
    /\ pendingHash = 1
    /\ ~IsAuthenticated
    /\ "/404" \in DOMAIN routes

----------------------------------------------------------------------------
(* The blood-pressure rule, checked under ValidatorSpec *)

\* the pressures of the record validated are whole numbers in their ranges
PressuresInRange ==
    /\ checked.done
    /\ checked.arg.blood_pressure_systolic # <<>>
    /\ checked.arg.blood_pressure_diastolic # <<>>
    /\ checked.arg.blood_pressure_systolic[1] \in 40..300
    /\ checked.arg.blood_pressure_diastolic[1] \in 20..200

\* C23: for systolic in 40..300 and diastolic in 20..200, validateVitalSigns
\* answers a systolic not above the diastolic with valid = false and the
\* blood_pressure error "Systolic BP must be greater than Diastolic BP",
\* and gives no blood_pressure error when the systolic is above the diastolic.
C23_SystolicAboveDiastolic ==
    PressuresInRange =>
        LET systolic == checked.arg.blood_pressure_systolic[1]
            diastolic == checked.arg.blood_pressure_diastolic[1]
            errors == checked.result.errors
        IN  /\ systolic <= diastolic =>
                   /\ ~checked.result.valid
                   /\ "blood_pressure" \in DOMAIN errors
                   /\ errors["blood_pressure"] =
                          "Systolic BP must be greater than Diastolic BP"
            /\ systolic > diastolic => "blood_pressure" \notin DOMAIN errors

\* 90 over 120, no other measurement: the one error is the pressure rule's
C23_Witness ==
    /\ PressuresInRange
    /\ checked.arg.blood_pressure_systolic = <<90>>
    /\ checked.arg.blood_pressure_diastolic = <<120>>
    /\ checked.arg.heart_rate = <<>>
    /\ ~checked.result.valid
    /\ DOMAIN checked.result.errors = {"blood_pressure"}

----------------------------------------------------------------------------
(* Properties of the forms, checked under FormSpec *)

\* the step ran handleRegister with values one of the local checks refuses
RegisterRefusedLocally(tr) ==
    \E i \in 1..Len(tr) :
        /\ tr[i][1] = "handleRegister"
        /\ \/ ~ValidateUsername(tr[i][2]).valid
           \/ ~ValidateEmail(tr[i][3], TRUE).valid
           \/ ~ValidatePassword(tr[i][4]).valid
           \/ tr[i][4] # tr[i][5]

\* the step ran handleFormSubmit with a record validateVitalSigns refuses
VitalsRefusedLocally(tr) ==
    \E i \in 1..Len(tr) :
        /\ tr[i][1] = "handleFormSubmit"
        /\ ~ValidateVitalSigns(tr[i][3]).valid

\* C21: with the validators bound, a submit that fails the local validation
\* issues no call: a registration with an invalid username, email or
\* password, or with a confirmation that differs, calls neither register nor
\* login, and a vitals submit validateVitalSigns refuses never calls
\* addVitalSigns.
C21_InvalidSubmitNoCall ==
    [][(validators /\ (RegisterRefusedLocally(trace') \/ VitalsRefusedLocally(trace')))
           => /\ awaits' = awaits
              /\ inflight' = inflight]_vars

\* a registration with the password "weak" was refused, the validators bound
C21_Witness ==
    /\ validators
    /\ RegisterRefusedLocally(trace)
    /\ \E i \in 1..Len(trace) :
           trace[i][1] = "handleRegister" /\ ~ValidatePassword(trace[i][4]).valid
    /\ awaits = <<>>
    /\ state["login"].error # NULL

\* the password of the scenario
Weak == <<"w", "e", "a", "k">>

\* the step ran handleRegister with a valid username, a valid email, the
\* password "weak" and the same confirmation
WeakRegistration(tr) ==
    \E i \in 1..Len(tr) :
        /\ tr[i][1] = "handleRegister"
        /\ ValidateUsername(tr[i][2]).valid
        /\ ValidateEmail(tr[i][3], TRUE).valid
        /\ tr[i][4] = Weak
        /\ tr[i][5] = Weak

\* C22 as stated: registering with the password "weak", the rest valid and
\* the confirmation matching, is refused before any call, and the message
\* shown cites the missing character classes.
C22_WeakRejectedCitingClasses ==
    [][WeakRegistration(trace') =>
           /\ awaits' = awaits
           /\ inflight' = inflight
           /\ state'["login"].error =
                  "Password must contain uppercase, lowercase, digit, and special character"]_vars

\* C22: with the validators bound, registering with the password "weak", the
\* rest valid and the confirmation matching, is refused before any call, and
\* the message shown is the one of the length check, which comes before the
\* check of the character classes.
C22_WeakRejectedForLength ==
    [][(validators /\ WeakRegistration(trace')) =>
           /\ awaits' = awaits
           /\ inflight' = inflight
           /\ state'["login"].error = "Password must be at least 8 characters"
           /\ shadow'["login"][1].error = "Password must be at least 8 characters"]_vars

\* "weak" was submitted with valid other fields and refused for its length
C22_Witness ==
    /\ validators
    /\ WeakRegistration(trace)
    /\ awaits = <<>>
    /\ state["login"].error = "Password must be at least 8 characters"
    /\ state["login"].showRegister

----------------------------------------------------------------------------
(* Properties of showVitalFieldErrors, checked under ErrorsSpec *)

\* the keys of `errors` whose field has an input in the shadow root
WithInput(errors) ==
    {k \in DOMAIN errors \ {"general"} :
        k \in DOMAIN FieldMap /\ FieldMap[k] \in Inputs(Now, "vitals")}

\* C24: when the vitals form has handled a map of errors keyed by field (the
\* validators bound, which the display of an error needs), each error whose
\* field has an input is displayed next to that input, and the form shows
\* the general message or the summary of the count; this is what the shadow
\* root holds once the handler has finished, after its last re-render.
C24_FieldErrorsDisplayed ==
    \A i \in 1..Len(trace) :
        (validators /\ trace[i][1] = "showVitalFieldErrors") =>
            LET errors == trace[i][2]
                marks == FormOf(Now, "vitals").marks
            IN  /\ \A k \in WithInput(errors) :
                       /\ FieldMap[k] \in DOMAIN marks
                       /\ marks[FieldMap[k]] = errors[k]
                /\ WithInput(errors) # {} => shadow["vitals"][1].formError # NULL

----------------------------------------------------------------------------
(* Properties of handleFormSubmit, checked under FormSpec *)

\* C31: on a submit of the vitals form, the record that is validated and sent
\* to addVitalSigns holds exactly the values the inputs held when the submit
\* event fired: the handler's own setState and re-render before it reads the
\* inputs neither change nor erase them.
C31_SubmittedValuesAreTyped ==
    \A i \in 1..Len(trace) :
        trace[i][1] = "handleFormSubmit" => trace[i][3] = trace[i][2]

----------------------------------------------------------------------------
(* Properties of the handlers bound to a shadow root, checked under FormSpec *)

\* each element attachEventListeners() finds in the shadow root of c has one
\* handler, and no other element has any
OneHandlerEach(c) == bound[c] = [el \in Listeners(Now, c) |-> 1]

\* the step dispatched a click on #toggle-btn
ToggleClicked(tr) == tr # <<>> /\ tr[1] = <<"click", "login", "toggle-btn">>

\* C38: handlers do not accumulate across render cycles: after the
\* constructor's setState, the attach and any further setState, each
\* interactive element of the rendered subtree has exactly one handler bound,
\* so one click on the login/register toggle runs its handler once: one
\* setState, which flips showRegister once.
C38_HandlersDoNotAccumulate ==
    /\ [](\A c \in Components : life[c] = "connected" => OneHandlerEach(c))
    /\ [][ToggleClicked(trace') =>
              /\ Cardinality(CallsOf(trace', "setState", "login")) = 1
              /\ state'["login"].showRegister = ~state["login"].showRegister]_vars

\* the toggle was clicked on the login form, which now is the register form
\* with one handler on its form and one on its toggle
C38_Witness ==
    /\ ToggleClicked(trace)
    /\ state["login"].showRegister
    /\ bound["login"] = [el \in {"auth-form", "toggle-btn"} |-> 1]

----------------------------------------------------------------------------
(* Properties of the registration flow, checked under FormSpec *)

\* the step went on with handler `h` of the login component after its call
\* was answered with a status of `statuses`
LoginResumed(tr, h, statuses) ==
    /\ tr # <<>>
    /\ tr[1][1] = "resume"
    /\ tr[1][2] = "login"
    /\ tr[1][3] = h
    /\ tr[1][4] \in statuses

\* the calls of operation op the handlers of `aw` wait for
CallsWaiting(aw, op) == {i \in 1..Len(aw) : aw[i].call.op = op}

\* C37: in the registration flow a successful register is followed by exactly
\* one login call, with the username and the password of the register call,
\* and does not set the credential itself; the credential is set only when a
\* login succeeds with a token; when register fails no login is issued, the
\* credential stays as it was, and the component ends with loading = false
\* and a non-empty error.
C37_RegisterThenOneLogin ==
    [][/\ LoginResumed(trace', "handleRegister", 200..299) =>
              \E i \in CallsWaiting(awaits, "register") :
                  /\ awaits' = Append(RemoveAt(awaits, i),
                                      Awaiting("login", "handleLogin",
                                               [op |-> "login",
                                                arg |-> <<awaits[i].call.arg[1],
                                                          awaits[i].call.arg[3]>>],
                                               NULL))
                  /\ token' = token /\ storage' = storage
       /\ LoginResumed(trace', "handleRegister", 0..599 \ 200..299) =>
              /\ Cardinality(CallsWaiting(awaits', "login"))
                     = Cardinality(CallsWaiting(awaits, "login"))
              /\ Len(awaits') = Len(awaits) - 1
              /\ token' = token /\ storage' = storage
              /\ ~state'["login"].loading
              /\ Truthy(state'["login"].error)
       /\ token' # token =>
              /\ LoginResumed(trace', "handleLogin", 200..299)
              /\ token' # NULL
              /\ storage' = token']_vars

\* register has just succeeded: one login call waits, with the name and the
\* password that were registered, and there is no credential yet
C37_Witness ==
    /\ LoginResumed(trace, "handleRegister", 200..299)
    /\ awaits = <<Awaiting("login", "handleLogin",
                           [op |-> "login",
                            arg |-> << <<"a", "n", "n">>,
                                       <<"W", "e", "a", "k", "1", "!", "x", "x">> >>],
                           NULL)>>
    /\ token = NULL
    /\ state["login"].loading

----------------------------------------------------------------------------
(* Logout, checked under FairSpec *)

\* the step that ran last is a click on #logout-btn
LogoutClicked == lastCall.op = "logout"

\* the location is '/login', what #main-content holds is what the login
\* callback rendered, and the navigation is hidden
LoginShown ==
    /\ fragment = <<"/", "login">>
    /\ view = "login"
    /\ navDisplay = "none"

\* C36: however many resolutions ran while a credential was held, #logout-btn
\* has exactly one handler once the navigation is shown; a click on it clears
\* the credential, in memory and stored, and asks for '/login'; from there
\* the login callback is eventually invoked and the navigation hidden, unless
\* the user has moved to another location or a login has stored a credential
\* first.
C36_LogoutOnce ==
    /\ [](logoutBound <= 1 /\ (navDisplay = "flex" => logoutBound = 1))
    /\ [][LogoutClicked' =>
              /\ token' = NULL
              /\ storage' = NULL
              /\ fragment' = <<"/", "login">>
              /\ pendingHash' = IF fragment = <<"/", "login">> THEN pendingHash
                                ELSE pendingHash + 1]_vars
    /\ LogoutClicked ~> (LoginShown \/ IsAuthenticated \/ fragment # <<"/", "login">>)

\* the login view after a logout: a handler was bound while the navigation
\* was shown, the credential is gone and the navigation hidden
C36_Witness ==
    /\ LoginShown
    /\ resolution.ran
    /\ resolution.handler = "login"
    /\ logoutBound = 1
    /\ token = NULL
    /\ storage = NULL



----------------------------------------------------------------------------
(* C35: the ranges validateVitalSigns accepts *)

\* the measurements of a record that were provided
Measured(d) == {k \in DOMAIN Ranges : d[k] # <<>>}

\* the provided measurement lies within the range of its key
InRange(d, k) == d[k][1] >= Ranges[k].min /\ d[k][1] <= Ranges[k].max

\* C35: validateVitalSigns answers valid only for a record with at least one
\* measurement whose provided measurements all lie within their ranges, and
\* it accepts a record whose only measurement is in range, the 0 of the
\* oxygen saturation included
C35_ValidOnlyInRange ==
    checked.done =>
        LET d == checked.arg
        IN  /\ checked.result.valid =>
                /\ Measured(d) # {}
                /\ \A k \in Measured(d) : InRange(d, k)
            /\ (\E k \in DOMAIN Ranges : Measured(d) = {k} /\ InRange(d, k)) =>
                checked.result.valid


----------------------------------------------------------------------------
(* C32, C33: the requests of the paginated PatientList *)

\* the list shows the patients and the pagination of a successful result
Displays(result) ==
    /\ shadow["list"][1].patients = PatientsOr(result.data)
    /\ "pagination" \in DOMAIN result.data =>
           shadow["list"][1].pagination = result.data["pagination"]

\* C32: once no request of the connected list is in flight, the patients and
\* the pagination displayed are those of the response to the request issued
\* last, never those of an earlier request answered later
C32_LatestResponseDisplayed ==
    (/\ life["list"] = "connected"
     /\ ListAwaits(awaits) = {}
     /\ latest.result # <<>>
     /\ latest.result[1].success) => Displays(latest.result[1])

\* the characters of the terms typed
Chars(term) == CASE term = "" -> <<>> [] term = "an" -> <<"a", "n">>

\* C33: each loadPatients(page) issues a GET /patients whose query carries
\* the requested page, the per_page of the current pagination, and the
\* current searchTerm as search when it is non-empty and no search otherwise;
\* a change of the search term requests page 1
C33_QueryCarriesPageAndSearch ==
    [][\A i \in CallsOf(trace', "loadPatients", "list") :
          LET e == awaits'[Len(awaits')]
              query == e.call.endpoint.query
              held == state'["list"]
          IN  /\ e.call.op = "getPatients"
              /\ Options(e.call).method = "GET"
              /\ e.call.endpoint.path = "/patients"
              /\ "page" \in DOMAIN query /\ query["page"] = trace'[i][3]
              /\ "per_page" \in DOMAIN query
              /\ query["per_page"] = held.pagination.per_page
              /\ IF held.searchTerm # ""
                 THEN /\ "search" \in DOMAIN query
                      /\ query["search"] = EncodeURIComponent(Chars(held.searchTerm))
                 ELSE "search" \notin DOMAIN query
              /\ CallsOf(trace', "input", "list") # {} => trace'[i][3] = 1
      ]_vars

----------------------------------------------------------------------------
(* C34: the loads a mounted VitalSigns starts *)

\* the loadPatientData calls that wait, each for its getPatient,
\* getPatientVitals and getVitalStatistics
LoadsWaiting(aw) == {i \in 1..Len(aw) : aw[i].handler = "loadPatientData"}

\* C34: the step that mounts a VitalSigns carrying a patient-id starts
\* exactly one load of that patient's data
C34_MountStartsOneLoad ==
    [][CallsOf(trace', "renderPatientsView", "vitals") # {} =>
          Cardinality(LoadsWaiting(awaits')) = Cardinality(LoadsWaiting(awaits)) + 1
      ]_vars


----------------------------------------------------------------------------
(* C39: the rows of the PatientList that filters on the client *)

\* C39: in every state of the list, filteredPatients holds the patients
\* whose first name, last name or email contains searchTerm, whatever the
\* case of the letters, and all patients when searchTerm is empty; also
\* after a loadPatients that completed while a searchTerm was set
C39_FilteredMatchesSearchTerm ==
    life["list"] = "connected" =>
        LET held == state["list"]
        IN  held.filteredPatients =
                IF held.searchTerm = <<>> THEN held.patients
                ELSE Filter(held.patients, ToLowerCase(held.searchTerm))

====
